---- MODULE Spec2Model ----
(***************************************************************************)
(* locksearch: the program index (src/src/indexer.rs), its scanner, its    *)
(* disk cache, and the search engine (src/src/search.rs).                  *)
(*                                                                         *)
(* Strings are sequences of one-character strings, so that lowercasing,    *)
(* substring tests, prefix tests and byte-order comparison are computed.   *)
(* An Option<T> is a sequence of length at most one.                       *)
(***************************************************************************)
EXTENDS Integers, Sequences, FiniteSets, TLC

\* ------------------------------------------------------------------ bounds

\* Scanner tasks that start_indexing may spawn in one behaviour.
MaxScans == 2

\* ------------------------------------------------------------------ strings

None == <<>>
Some(x) == <<x>>
IsSome(o) == Len(o) = 1
Unwrap(o) == o[1]

UpperCase == <<"A", "B", "C", "D", "E", "F", "G", "H", "I", "J", "K", "L", "M",
               "N", "O", "P", "Q", "R", "S", "T", "U", "V", "W", "X", "Y", "Z">>
LowerCase == <<"a", "b", "c", "d", "e", "f", "g", "h", "i", "j", "k", "l", "m",
               "n", "o", "p", "q", "r", "s", "t", "u", "v", "w", "x", "y", "z">>
Digits == <<"0", "1", "2", "3", "4", "5", "6", "7", "8", "9">>

IndexIn(seq, c) == CHOOSE i \in 1..Len(seq) : seq[i] = c
Range(seq) == {seq[i] : i \in 1..Len(seq)}

\* Byte value of a character (ASCII): ' ' '-' '.' digits, upper case, '_', lower case.
Ord(c) ==
    CASE c = " " -> 32
      [] c = "-" -> 45
      [] c = "." -> 46
      [] c \in Range(Digits) -> 47 + IndexIn(Digits, c)
      [] c \in Range(UpperCase) -> 64 + IndexIn(UpperCase, c)
      [] c = "_" -> 95
      [] c \in Range(LowerCase) -> 96 + IndexIn(LowerCase, c)

\* char::to_lowercase on the characters of the model.
LowerChar(c) == IF c \in Range(UpperCase) THEN LowerCase[IndexIn(UpperCase, c)] ELSE c

\* str::to_lowercase
ToLowercase(s) == [i \in 1..Len(s) |-> LowerChar(s[i])]

\* str::starts_with
StartsWith(s, p) == Len(p) <= Len(s) /\ SubSeq(s, 1, Len(p)) = p

\* str::contains
Contains(s, p) == \E i \in 0..(Len(s) - Len(p)) : SubSeq(s, i + 1, i + Len(p)) = p

\* Ord for String: byte-wise lexicographic comparison; -1, 0 or 1.
RECURSIVE StrCmp(_, _)
StrCmp(a, b) ==
    IF a = <<>> /\ b = <<>> THEN 0
    ELSE IF a = <<>> THEN -1
    ELSE IF b = <<>> THEN 1
    ELSE IF Ord(a[1]) < Ord(b[1]) THEN -1
    ELSE IF Ord(a[1]) > Ord(b[1]) THEN 1
    ELSE StrCmp(Tail(a), Tail(b))

\* ------------------------------------------------------------------ entries

StartMenu == "StartMenu"
ProgramFiles == "ProgramFiles"
ProgramSource == {StartMenu, ProgramFiles}

\* struct ProgramEntry. A PathBuf is an opaque string; icon_path is an Option.
ProgramEntry(path, name, display_name, source, icon_path) ==
    [path |-> path, name |-> name, display_name |-> display_name,
     source |-> source, icon_path |-> icon_path]

\* Paths that are not valid Unicode: Path::to_str() is None for them, so their
\* stem is unreadable as a str and serde cannot serialize them.
NonUtf8Paths == {"pf\\<ill-formed>.exe"}

\* ------------------------------------------------------------------ scanner

\* What WalkDir meets under the roots, in walk order: the Start Menu roots are
\* walked before the Program Files roots (start_indexing). Each record is one
\* directory entry: readable (the walk yielded Ok), its depth below the root,
\* whether it is a regular file, its stem and extension as Option<str>, and for
\* a shortcut what lnk::ShellLink::open does with it (ok / err / panic), the
\* name and local base path it holds, and whether an icon can be extracted
\* from the target and written.
Candidates == <<
    [root |-> StartMenu, path |-> "sm\\al.LNK", readable |-> TRUE, depth |-> 2,
     isFile |-> TRUE, stem |-> Some(<<"a", "l">>), ext |-> Some(<<"L", "N", "K">>),
     lnk |-> "panic", lnkName |-> None, basePath |-> None, iconOk |-> FALSE],
    [root |-> StartMenu, path |-> "sm\\Beta.lnk", readable |-> TRUE, depth |-> 1,
     isFile |-> TRUE, stem |-> Some(<<"B", "e", "t", "a">>), ext |-> Some(<<"l", "n", "k">>),
     lnk |-> "ok", lnkName |-> None, basePath |-> Some("pf\\beta\\beta.exe"), iconOk |-> TRUE],
    [root |-> StartMenu, path |-> "sm\\x\\beta.lnk", readable |-> TRUE, depth |-> 2,
     isFile |-> TRUE, stem |-> Some(<<"b", "e", "t", "a">>), ext |-> Some(<<"l", "n", "k">>),
     lnk |-> "err", lnkName |-> None, basePath |-> None, iconOk |-> FALSE],
    [root |-> StartMenu, path |-> "sm\\y\\locked.lnk", readable |-> FALSE, depth |-> 2,
     isFile |-> TRUE, stem |-> Some(<<"l", "o", "c", "k", "e", "d">>), ext |-> Some(<<"l", "n", "k">>),
     lnk |-> "ok", lnkName |-> None, basePath |-> None, iconOk |-> TRUE],
    [root |-> ProgramFiles, path |-> "pf\\Ab.exe", readable |-> TRUE, depth |-> 2,
     isFile |-> TRUE, stem |-> Some(<<"A", "b">>), ext |-> Some(<<"e", "x", "e">>),
     lnk |-> "n/a", lnkName |-> None, basePath |-> None, iconOk |-> TRUE],
    [root |-> ProgramFiles, path |-> "pf\\AL.exe", readable |-> TRUE, depth |-> 1,
     isFile |-> TRUE, stem |-> Some(<<"A", "L">>), ext |-> Some(<<"e", "x", "e">>),
     lnk |-> "n/a", lnkName |-> None, basePath |-> None, iconOk |-> TRUE],
    [root |-> ProgramFiles, path |-> "pf\\<ill-formed>.exe", readable |-> TRUE, depth |-> 1,
     isFile |-> TRUE, stem |-> None, ext |-> Some(<<"e", "x", "e">>),
     lnk |-> "n/a", lnkName |-> None, basePath |-> None, iconOk |-> FALSE],
    [root |-> ProgramFiles, path |-> "pf\\Setup.exe", readable |-> TRUE, depth |-> 1,
     isFile |-> TRUE, stem |-> Some(<<"S", "e", "t", "u", "p">>), ext |-> Some(<<"e", "x", "e">>),
     lnk |-> "n/a", lnkName |-> None, basePath |-> None, iconOk |-> TRUE] >>

\* The directory trees a scan may find: which candidates exist when it starts.
FileSystems == { {1, 2, 6, 8}, {5, 6, 7} }

\* index_directory: max_depth per source.
MaxDepth(source) == IF source = StartMenu THEN 5 ELSE 2

\* index_directory: the extensions accepted per source.
Extensions(source) == IF source = StartMenu THEN {<<"l", "n", "k">>} ELSE {<<"e", "x", "e">>}

\* index_directory: the lower-cased stems that are skipped.
Excluded == { <<"u", "n", "i", "n", "s", "t", "a", "l", "l">>, <<"u", "n", "i", "n", "s", "t">>,
              <<"u", "p", "d", "a", "t", "e">>, <<"u", "p", "d", "a", "t", "e", "r">>,
              <<"s", "e", "t", "u", "p">> }

Unknown == <<"U", "n", "k", "n", "o", "w", "n">>

\* A resolution that takes the name of a shortcut as it is, empty or not.
get_display_name_unfiltered(f, ext) ==
    LET stemOr == IF IsSome(f.stem) THEN Unwrap(f.stem) ELSE Unknown
    IN  IF ext = Some(<<"l", "n", "k">>) /\ f.lnk = "ok"
        THEN [display |-> IF IsSome(f.lnkName) THEN Unwrap(f.lnkName) ELSE stemOr,
              target  |-> IF IsSome(f.basePath) THEN Unwrap(f.basePath) ELSE f.path]
        ELSE [display |-> stemOr, target |-> f.path]

\* get_display_name_and_target: (display name, target path) of a file whose
\* lower-cased extension is ext. A shortcut that opens gives its non-empty
\* name, else the stem, else "Unknown", and its local base path as the target;
\* a shortcut that fails to open (error or caught panic) and any other file
\* give the stem, else "Unknown", and the file's own path.
get_display_name_and_target(f, ext) ==
    LET stemOr == IF IsSome(f.stem) THEN Unwrap(f.stem) ELSE Unknown
    IN  IF ext = Some(<<"l", "n", "k">>) /\ f.lnk = "ok"
        THEN [display |-> IF IsSome(f.lnkName) /\ Unwrap(f.lnkName) # <<>>
                          THEN Unwrap(f.lnkName) ELSE stemOr,
              target  |-> IF IsSome(f.basePath) THEN Unwrap(f.basePath) ELSE f.path]
        ELSE [display |-> stemOr, target |-> f.path]

\* char::is_alphanumeric on the characters of the model.
IsAlphanumeric(c) == c \in Range(UpperCase) \cup Range(LowerCase) \cup Range(Digits)

IconNameLimit == 50

\* extract_icon: the cache file name derived from the display name.
IconFileName(display_name) ==
    LET kept == SelectSeq(display_name, LAMBDA c : IsAlphanumeric(c) \/ c \in {" ", "-", "_"})
        cut  == SubSeq(kept, 1, IF Len(kept) < IconNameLimit THEN Len(kept) ELSE IconNameLimit)
    IN  [i \in 1..Len(cut) |-> IF cut[i] = " " THEN "_" ELSE cut[i]] \o <<".", "p", "n", "g">>

\* An extraction that does not look for an icon file that is already there.
extract_icon_without_reuse(f, display_name, icons) ==
    LET file == IconFileName(display_name)
    IN  IF f.iconOk THEN [icon |-> Some(file), icons |-> icons \cup {file}]
        ELSE [icon |-> None, icons |-> icons]

\* extract_icon: [icon |-> Option<path>, icons |-> the icon directory afterwards].
\* An existing file is reused; else extraction from the target is tried, and a
\* failure of it or of the write gives None.
extract_icon(f, display_name, icons) ==
    LET file == IconFileName(display_name)
    IN  IF file \in icons THEN [icon |-> Some(file), icons |-> icons]
        ELSE IF f.iconOk THEN [icon |-> Some(file), icons |-> icons \cup {file}]
        ELSE [icon |-> None, icons |-> icons]

\* An iteration that passes over a shortcut that cannot be opened.
index_directory_skip_failed(f, w) ==
    LET ext       == IF IsSome(f.ext) THEN Some(ToLowercase(Unwrap(f.ext))) ELSE None
        validExt  == IsSome(ext) /\ Unwrap(ext) \in Extensions(f.root)
        nameLower == IF IsSome(f.stem) THEN ToLowercase(Unwrap(f.stem)) ELSE <<>>
        dt        == get_display_name_and_target(f, ext)
        key       == ToLowercase(dt.display)
        ic        == extract_icon(f, dt.display, w.icons)
    IN  IF ~f.readable \/ f.depth > MaxDepth(f.root) THEN w
        ELSE IF ~f.isFile THEN w
        ELSE IF ~validExt THEN w
        ELSE IF \E x \in Excluded : Contains(nameLower, x) THEN w
        ELSE IF ext = Some(<<"l", "n", "k">>) /\ f.lnk # "ok" THEN w
        ELSE IF key \in w.seen THEN w
        ELSE [programs |-> Append(w.programs,
                                  ProgramEntry(f.path, nameLower, dt.display, f.root, ic.icon)),
              seen     |-> w.seen \cup {key},
              icons    |-> ic.icons]

\* An iteration that does not look at the names already seen.
index_directory_no_dedup(f, w) ==
    LET ext       == IF IsSome(f.ext) THEN Some(ToLowercase(Unwrap(f.ext))) ELSE None
        validExt  == IsSome(ext) /\ Unwrap(ext) \in Extensions(f.root)
        nameLower == IF IsSome(f.stem) THEN ToLowercase(Unwrap(f.stem)) ELSE <<>>
        dt        == get_display_name_and_target(f, ext)
        ic        == extract_icon(f, dt.display, w.icons)
    IN  IF ~f.readable \/ f.depth > MaxDepth(f.root) THEN w
        ELSE IF ~f.isFile THEN w
        ELSE IF ~validExt THEN w
        ELSE IF \E x \in Excluded : Contains(nameLower, x) THEN w
        ELSE [programs |-> Append(w.programs,
                                  ProgramEntry(f.path, nameLower, dt.display, f.root, ic.icon)),
              seen     |-> w.seen \cup {ToLowercase(dt.display)},
              icons    |-> ic.icons]

\* An iteration that lets a file of a display name already seen take the place
\* of the entry that has it.
index_directory_last_wins(f, w) ==
    LET ext       == IF IsSome(f.ext) THEN Some(ToLowercase(Unwrap(f.ext))) ELSE None
        validExt  == IsSome(ext) /\ Unwrap(ext) \in Extensions(f.root)
        nameLower == IF IsSome(f.stem) THEN ToLowercase(Unwrap(f.stem)) ELSE <<>>
        dt        == get_display_name_and_target(f, ext)
        key       == ToLowercase(dt.display)
        ic        == extract_icon(f, dt.display, w.icons)
        kept      == SelectSeq(w.programs, LAMBDA e : ToLowercase(e.display_name) # key)
    IN  IF ~f.readable \/ f.depth > MaxDepth(f.root) THEN w
        ELSE IF ~f.isFile THEN w
        ELSE IF ~validExt THEN w
        ELSE IF \E x \in Excluded : Contains(nameLower, x) THEN w
        ELSE [programs |-> Append(kept,
                                  ProgramEntry(f.path, nameLower, dt.display, f.root, ic.icon)),
              seen     |-> w.seen \cup {key},
              icons    |-> ic.icons]

\* An iteration that records the key of a file before it tests the exclusion.
index_directory_exclude_late(f, w) ==
    LET ext       == IF IsSome(f.ext) THEN Some(ToLowercase(Unwrap(f.ext))) ELSE None
        validExt  == IsSome(ext) /\ Unwrap(ext) \in Extensions(f.root)
        nameLower == IF IsSome(f.stem) THEN ToLowercase(Unwrap(f.stem)) ELSE <<>>
        dt        == get_display_name_and_target(f, ext)
        key       == ToLowercase(dt.display)
        ic        == extract_icon(f, dt.display, w.icons)
    IN  IF ~f.readable \/ f.depth > MaxDepth(f.root) THEN w
        ELSE IF ~f.isFile THEN w
        ELSE IF ~validExt THEN w
        ELSE IF key \in w.seen THEN w
        ELSE IF \E x \in Excluded : Contains(nameLower, x)
             THEN [w EXCEPT !.seen = w.seen \cup {key}]
        ELSE [programs |-> Append(w.programs,
                                  ProgramEntry(f.path, nameLower, dt.display, f.root, ic.icon)),
              seen     |-> w.seen \cup {key},
              icons    |-> ic.icons]

\* One iteration of index_directory's loop, on walk entry f of the root being
\* indexed: w = [programs, seen, icons] before, the result after.
index_directory_step(f, w) ==
    LET ext       == IF IsSome(f.ext) THEN Some(ToLowercase(Unwrap(f.ext))) ELSE None
        validExt  == IsSome(ext) /\ Unwrap(ext) \in Extensions(f.root)
        nameLower == IF IsSome(f.stem) THEN ToLowercase(Unwrap(f.stem)) ELSE <<>>
        dt        == get_display_name_and_target(f, ext)
        key       == ToLowercase(dt.display)
        ic        == extract_icon(f, dt.display, w.icons)
    IN  IF ~f.readable \/ f.depth > MaxDepth(f.root) THEN w
        ELSE IF ~f.isFile THEN w
        ELSE IF ~validExt THEN w
        ELSE IF \E x \in Excluded : Contains(nameLower, x) THEN w
        ELSE IF key \in w.seen THEN w
        ELSE [programs |-> Append(w.programs,
                                  ProgramEntry(f.path, nameLower, dt.display, f.root, ic.icon)),
              seen     |-> w.seen \cup {key},
              icons    |-> ic.icons]

\* start_indexing: the key the final sort compares.
Priority(source) == IF source = StartMenu THEN 0 ELSE 1

\* A comparator that takes no account of the case of the display names.
EntryLessIgnoringCase(a, b) ==
    \/ Priority(a.source) < Priority(b.source)
    \/ /\ Priority(a.source) = Priority(b.source)
       /\ StrCmp(ToLowercase(a.display_name), ToLowercase(b.display_name)) < 0

\* The comparator of programs.sort_by: a sorts strictly before b.
EntryLess(a, b) ==
    \/ Priority(a.source) < Priority(b.source)
    \/ /\ Priority(a.source) = Priority(b.source)
       /\ StrCmp(a.display_name, b.display_name) < 0

\* Vec::sort_by (stable): insertion after the last element not greater than e.
RECURSIVE InsertSorted(_, _)
InsertSorted(sorted, e) ==
    IF sorted = <<>> THEN <<e>>
    ELSE IF EntryLess(e, sorted[1]) THEN <<e>> \o sorted
    ELSE <<sorted[1]>> \o InsertSorted(Tail(sorted), e)

RECURSIVE SortPrograms(_)
SortPrograms(programs) ==
    IF programs = <<>> THEN <<>>
    ELSE InsertSorted(SortPrograms(SubSeq(programs, 1, Len(programs) - 1)),
                      programs[Len(programs)])

\* ------------------------------------------------------------------ cache file

\* A serialization that leaves the icon path out.
JsonOfEntryWithoutIcon(e) ==
    [t |-> "object",
     path |-> e.path, name |-> e.name, display_name |-> e.display_name,
     source |-> e.source,
     icon_path |-> [t |-> "null"]]

\* The text of the cache file is a sequence of JSON tokens: "[", one object per
\* entry, "]". serde_json::to_string fails on a path that is not valid Unicode.
JsonOfEntry(e) ==
    [t |-> "object",
     path |-> e.path, name |-> e.name, display_name |-> e.display_name,
     source |-> e.source,
     icon_path |-> IF IsSome(e.icon_path) THEN [t |-> "string", s |-> Unwrap(e.icon_path)]
                   ELSE [t |-> "null"]]

\* serde_json::to_string(entries): Option<text>.
ToJson(entries) ==
    IF \E i \in 1..Len(entries) : entries[i].path \in NonUtf8Paths THEN None
    ELSE Some(<<[t |-> "["]>> \o [i \in 1..Len(entries) |-> JsonOfEntry(entries[i])]
              \o <<[t |-> "]"]>>)

\* Deserialize for ProgramEntry: every field present, source a known variant.
IsEntryJson(tok) ==
    /\ tok.t = "object"
    /\ DOMAIN tok = {"t", "path", "name", "display_name", "source", "icon_path"}
    /\ tok.source \in ProgramSource
    /\ tok.icon_path.t \in {"string", "null"}

EntryOfJson(tok) ==
    ProgramEntry(tok.path, tok.name, tok.display_name, tok.source,
                 IF tok.icon_path.t = "string" THEN Some(tok.icon_path.s) ELSE None)

\* serde_json::from_str::<Vec<ProgramEntry>>(text): Option<entries>.
FromJson(text) ==
    IF /\ Len(text) >= 2
       /\ text[1].t = "["
       /\ text[Len(text)].t = "]"
       /\ \A i \in 2..(Len(text) - 1) : IsEntryJson(text[i])
    THEN Some([i \in 1..(Len(text) - 2) |-> EntryOfJson(text[i + 1])])
    ELSE None

\* ------------------------------------------------------------------ search

\* SearchResult
SearchResult(entry, score) == [entry |-> entry, score |-> score]

\* The number of entries an empty query returns.
EmptyQueryLimit == 20

\* results.truncate(50)
ResultLimit == 50

\* source_boost of a Start Menu entry.
SourceBoost == 50

\* A prefix boost that is no more than the source boost.
WeakPrefixBoost == SourceBoost

\* prefix_boost of a display name that starts with the query.
PrefixBoost == 100

\* SkimMatcherV2 (smart case): a pattern without upper-case letters is matched
\* whatever the case of the choice, any other pattern exactly.
CharMatches(c, pc, pattern) ==
    IF \E i \in 1..Len(pattern) : pattern[i] \in Range(UpperCase)
    THEN c = pc
    ELSE LowerChar(c) = pc

\* The positions of the leftmost occurrence of pattern as an ordered
\* subsequence of choice, from position from on; <<>> when there is none
\* (or when the pattern is empty).
RECURSIVE MatchPositions(_, _, _, _)
MatchPositions(choice, pattern, k, from) ==
    IF k > Len(pattern) THEN <<>>
    ELSE LET hits == {i \in from..Len(choice) : CharMatches(choice[i], pattern[k], pattern)}
         IN  IF hits = {} THEN <<>>
             ELSE LET i    == CHOOSE h \in hits : \A g \in hits : h <= g
                      rest == MatchPositions(choice, pattern, k + 1, i + 1)
                  IN  IF k < Len(pattern) /\ rest = <<>> THEN <<>> ELSE <<i>> \o rest

\* SkimMatcherV2::fuzzy_match(choice, pattern): Option<i64>. None unless the
\* characters of the pattern occur in the choice in their order; the score of
\* a match grows with each matched character, with a match at the head and
\* with adjacent matches, and falls with the characters skipped.
fuzzy_match(choice, pattern) ==
    LET pos == MatchPositions(choice, pattern, 1, 1)
        n   == Len(pos)
    IN  IF pattern = <<>> THEN Some(0)
        ELSE IF n = 0 THEN None
        ELSE Some(16 * n
                  + (IF pos[1] = 1 THEN 8 ELSE 0)
                  + 4 * Cardinality({k \in 1..(n - 1) : pos[k + 1] = pos[k] + 1})
                  - (pos[n] - n))

\* Option<i64>::max: None is below every Some.
OptionMax(a, b) ==
    IF ~IsSome(a) THEN b
    ELSE IF ~IsSome(b) THEN a
    ELSE IF Unwrap(a) >= Unwrap(b) THEN a ELSE b

\* The closure of filter_map: Option<SearchResult> of one entry.
ScoreEntry(query_lower, entry) ==
    LET display_score == fuzzy_match(ToLowercase(entry.display_name), query_lower)
        name_score    == fuzzy_match(entry.name, query_lower)
        base_score    == OptionMax(display_score, name_score)
        source_boost  == IF entry.source = StartMenu THEN SourceBoost ELSE 0
        prefix_boost  == IF StartsWith(ToLowercase(entry.display_name), query_lower)
                         THEN PrefixBoost ELSE 0
    IN  IF IsSome(base_score)
        THEN Some(SearchResult(entry, Unwrap(base_score) + source_boost + prefix_boost))
        ELSE None

\* entries.iter().filter_map(..).collect()
RECURSIVE FilterMap(_, _)
FilterMap(query_lower, es) ==
    IF es = <<>> THEN <<>>
    ELSE ScoreEntry(query_lower, es[1]) \o FilterMap(query_lower, Tail(es))

\* An insertion that puts r before the results of its own score.
RECURSIVE InsertBeforeEqual(_, _)
InsertBeforeEqual(sorted, r) ==
    IF sorted = <<>> THEN <<r>>
    ELSE IF r.score >= sorted[1].score THEN <<r>> \o sorted
    ELSE <<sorted[1]>> \o InsertBeforeEqual(Tail(sorted), r)

\* results.sort_by(|a, b| b.score.cmp(&a.score)): stable, so r goes after the
\* results whose score is not below its own.
RECURSIVE InsertByScore(_, _)
InsertByScore(sorted, r) ==
    IF sorted = <<>> THEN <<r>>
    ELSE IF r.score > sorted[1].score THEN <<r>> \o sorted
    ELSE <<sorted[1]>> \o InsertByScore(Tail(sorted), r)

RECURSIVE SortByScore(_)
SortByScore(rs) ==
    IF rs = <<>> THEN <<>>
    ELSE InsertByScore(SortByScore(SubSeq(rs, 1, Len(rs) - 1)), rs[Len(rs)])

\* Iterator::take / Vec::truncate
Take(seq, n) == SubSeq(seq, 1, IF Len(seq) < n THEN Len(seq) ELSE n)

\* A search that returns every match.
search_uncapped(q, es) ==
    IF q = <<>>
    THEN [i \in 1..Len(Take(es, EmptyQueryLimit)) |-> SearchResult(es[i], 0)]
    ELSE SortByScore(FilterMap(ToLowercase(q), es))

\* A search that cuts the list of an empty query at the limit of the others.
search_one_limit(q, es) ==
    IF q = <<>>
    THEN [i \in 1..Len(Take(es, ResultLimit)) |-> SearchResult(es[i], 0)]
    ELSE Take(SortByScore(FilterMap(ToLowercase(q), es)), ResultLimit)

\* A search that asks for a match of the display name before it looks at the
\* short name.
search_display_first(q, es) ==
    IF q = <<>>
    THEN [i \in 1..Len(Take(es, EmptyQueryLimit)) |-> SearchResult(es[i], 0)]
    ELSE LET ql   == ToLowercase(q)
             kept == SelectSeq(es, LAMBDA e : IsSome(fuzzy_match(ToLowercase(e.display_name), ql)))
         IN  Take(SortByScore(FilterMap(ql, kept)), ResultLimit)

\* SearchEngine::search
search(q, es) ==
    IF q = <<>>
    THEN [i \in 1..Len(Take(es, EmptyQueryLimit)) |-> SearchResult(es[i], 0)]
    ELSE Take(SortByScore(FilterMap(ToLowercase(q), es)), ResultLimit)

\* ------------------------------------------------------------------ orchestrator

\* Config: max_results when the configuration file does not give it.
default_max_results == 10

\* Config: enable_cache when the configuration file does not give it.
default_enable_cache == TRUE

\* ProgramResult
ProgramResult(r) ==
    [path |-> r.entry.path, display_name |-> r.entry.display_name,
     icon_path |-> r.entry.icon_path]

\* results.into_iter().take(max_results).map(..).collect()
TakeResults(rs, max) ==
    [i \in 1..Len(Take(rs, max)) |-> ProgramResult(rs[i])]

\* ------------------------------------------------------------------ state

VARIABLES
    entries,        \* ProgramIndex.entries: the published list
    is_indexing,    \* ProgramIndex.is_indexing
    indexed_count,  \* ProgramIndex.indexed_count
    cacheFile,      \* the file at cache_path: [exists, readable, text, by]
    icons,          \* the files in icon_cache_dir
    scan,           \* the blocking tasks start_indexing spawned, by number
    nScans,         \* how many were spawned
    load,           \* the call of load_cache the application makes
    startResult,    \* what start_indexing did, if the last step was a call of it
    snap,           \* what get_entries returned, if the last step was a call of it
    query,          \* SearchEngine::search: the query it is given
    given,          \* SearchEngine::search: the entry list it is given
    results,        \* SearchEngine::search: what it returned (Option)
    max_results,    \* Config::max_results
    shown,          \* perform_search: the list it hands to SearchCompleted (Option)
    enable_cache,   \* Config::enable_cache
    app,            \* App: search_query, search_results, selected_index, is_indexing,
                    \* indexed_count
    cmd,            \* the commands of the application in flight, but for the searches
    searches,       \* the perform_search commands in flight, in the order of issue
    opened,         \* open::that: the path it was last handed and how it ended (Option)
    file            \* index_directory: the walk entry of the one iteration looked at

storeVars == <<entries, is_indexing, indexed_count, cacheFile, icons, scan, nScans,
               load, startResult, snap>>

searchVars == <<query, given, results, max_results, shown>>

appVars == <<enable_cache, app, cmd, searches>>

outsideVars == <<opened, file>>

\* What the operations of the index leave alone.
nonStoreVars == <<searchVars, appVars, outsideVars>>

vars == <<storeVars, searchVars, appVars, outsideVars>>

\* What the cache file may hold when the program starts: nothing, something
\* unreadable, a text cut short or not an entry list, or the text an earlier
\* run saved after a scan. by is the scan task that last opened the file for
\* writing, 0 for an earlier run.
EarlierSaved ==
    <<ProgramEntry("sm\\Beta.lnk", <<"b", "e", "t", "a">>, <<"B", "e", "t", "a">>, StartMenu,
                   Some(<<"B", "e", "t", "a", ".", "p", "n", "g">>)),
      ProgramEntry("pf\\Zed.exe", <<"z", "e", "d">>, <<"Z", "e", "d">>, ProgramFiles, None)>>

InitialCacheFiles ==
    { [exists |-> FALSE, readable |-> FALSE, text |-> <<>>, by |-> 0],
      [exists |-> TRUE, readable |-> FALSE, text |-> <<>>, by |-> 0],
      [exists |-> TRUE, readable |-> TRUE, by |-> 0,
       text |-> SubSeq(Unwrap(ToJson(EarlierSaved)), 1, 2)],
      [exists |-> TRUE, readable |-> TRUE, by |-> 0,
       text |-> <<[t |-> "["], [t |-> "object", path |-> "x"], [t |-> "]"]>>],
      [exists |-> TRUE, readable |-> TRUE, by |-> 0, text |-> Unwrap(ToJson(EarlierSaved))] }

\* A scan task: where it is, the tree it walks and the last candidate visited,
\* its locals programs, seen, count and entries_snapshot, and how its save ended.
IdleScan == [pc |-> "idle", fs |-> {}, i |-> 0, programs |-> <<>>, seen |-> {},
             count |-> 0, snapshot |-> <<>>, saved |-> "none"]

\* A task that has ended: the list it produced and how its save ended are kept.
EndedScan(t, saved) == [IdleScan EXCEPT !.pc = "done", !.programs = t.programs,
                                        !.count = t.count, !.saved = saved]

\* The call of load_cache: where it is, its locals data, cached and count, and
\* what it returned.
IdleLoad == [pc |-> "idle", data |-> <<>>, cached |-> <<>>, count |-> 0, ret |-> None]

\* App::new: the fields of the application.
NewApp == [search_query |-> <<>>, search_results |-> <<>>, selected_index |-> 0,
           is_indexing |-> FALSE, indexed_count |-> 0]

\* The commands in flight: start counts the futures that will send
\* StartIndexing; load is the future of load_cache (none, pending, or handled
\* once CacheLoaded was taken); index is where the future of start_indexing
\* and the polls that follow it are (none, start, started, flag, count, msg),
\* flag and count what a poll has read; typed counts the query changes.
NoCmd == [start |-> 0, load |-> "none", index |-> "none", flag |-> FALSE, count |-> 0,
          typed |-> 0]

\* No search has been asked for, and no application runs.
NoSearch ==
    /\ query = <<>>
    /\ given = <<>>
    /\ results = None
    /\ max_results = default_max_results
    /\ shown = None
    /\ enable_cache = default_enable_cache
    /\ app = NewApp
    /\ cmd = NoCmd
    /\ searches = <<>>
    /\ opened = None
    /\ file = None

\* ProgramIndex::new, and the disk as the program finds it.
Init ==
    /\ NoSearch
    /\ entries = <<>>
    /\ is_indexing = FALSE
    /\ indexed_count = 0
    /\ cacheFile \in InitialCacheFiles
    /\ icons = {}
    /\ scan = [s \in 1..MaxScans |-> IdleScan]
    /\ nScans = 0
    /\ load = IdleLoad
    /\ startResult = "none"
    /\ snap = None

\* ------------------------------------------------------------------ readers

\* get_entries: a clone of the list under the read lock.
get_entries ==
    /\ snap' = Some(entries)
    /\ startResult' = "none"
    /\ UNCHANGED nonStoreVars
    /\ UNCHANGED <<entries, is_indexing, indexed_count, cacheFile, icons, scan, nScans, load>>

\* ------------------------------------------------------------------ start_indexing

\* The blocking task as spawn_blocking creates it: empty programs and seen.
SpawnedScan(fs) == [IdleScan EXCEPT !.pc = "walk", !.fs = fs]

\* start_indexing with the flag set: returns under the write lock, spawns nothing.
start_indexing_busy ==
    /\ is_indexing
    /\ startResult' = "busy"
    /\ snap' = None
    /\ UNCHANGED nonStoreVars
    /\ UNCHANGED <<entries, is_indexing, indexed_count, cacheFile, icons, scan, nScans, load>>

\* start_indexing without the test of the flag: it spawns a task whatever the
\* flag says.
start_indexing_unchecked ==
    /\ nScans < MaxScans
    /\ \E fs \in FileSystems :
          scan' = [scan EXCEPT ![nScans + 1] = SpawnedScan(fs)]
    /\ is_indexing' = TRUE
    /\ nScans' = nScans + 1
    /\ startResult' = "spawned"
    /\ snap' = None
    /\ UNCHANGED nonStoreVars
    /\ UNCHANGED <<entries, indexed_count, cacheFile, icons, load>>

\* start_indexing with the flag clear: sets it under the write lock, then spawns
\* the blocking task, which finds the directory trees as they are (fs).
start_indexing_spawn ==
    /\ ~is_indexing
    /\ nScans < MaxScans
    /\ \E fs \in FileSystems :
          scan' = [scan EXCEPT ![nScans + 1] = SpawnedScan(fs)]
    /\ is_indexing' = TRUE
    /\ nScans' = nScans + 1
    /\ startResult' = "spawned"
    /\ snap' = None
    /\ UNCHANGED nonStoreVars
    /\ UNCHANGED <<entries, indexed_count, cacheFile, icons, load>>

\* ------------------------------------------------------------------ the scan task

\* The candidates of fs the walk has still to visit after the i-th.
Remaining(fs, i) == {j \in fs : j > i}

NextCandidate(fs, i) == CHOOSE j \in Remaining(fs, i) : \A k \in Remaining(fs, i) : j <= k

\* A walk that pushes each entry it finds into the shared list as it goes.
ScanWalkShared(s) ==
    /\ scan[s].pc = "walk"
    /\ Remaining(scan[s].fs, scan[s].i) # {}
    /\ LET j == NextCandidate(scan[s].fs, scan[s].i)
           w == index_directory_step(Candidates[j],
                    [programs |-> scan[s].programs, seen |-> scan[s].seen, icons |-> icons])
       IN  /\ scan' = [scan EXCEPT ![s].i = j, ![s].programs = w.programs,
                                   ![s].seen = w.seen]
           /\ icons' = w.icons
           /\ entries' = w.programs
    /\ startResult' = "none"
    /\ snap' = None
    /\ UNCHANGED nonStoreVars
    /\ UNCHANGED <<is_indexing, indexed_count, cacheFile, nScans, load>>

\* One walk entry of index_directory: only the task's own programs and seen, and
\* the icon directory, change.
ScanWalk(s) ==
    /\ scan[s].pc = "walk"
    /\ Remaining(scan[s].fs, scan[s].i) # {}
    /\ \E j \in {NextCandidate(scan[s].fs, scan[s].i)} :
       \E w \in {index_directory_step(Candidates[j],
                    [programs |-> scan[s].programs, seen |-> scan[s].seen, icons |-> icons])} :
           /\ scan' = [scan EXCEPT ![s].i = j, ![s].programs = w.programs,
                                   ![s].seen = w.seen]
           /\ icons' = w.icons
    /\ startResult' = "none"
    /\ snap' = None
    /\ UNCHANGED nonStoreVars
    /\ UNCHANGED <<entries, is_indexing, indexed_count, cacheFile, nScans, load>>

\* A task that saves its sorted list to the cache file before it publishes it.
ScanSortSaveFirst(s) ==
    /\ scan[s].pc = "walk"
    /\ Remaining(scan[s].fs, scan[s].i) = {}
    /\ LET sorted == SortPrograms(scan[s].programs)
       IN  /\ scan' = [scan EXCEPT ![s].programs = sorted, ![s].count = Len(sorted),
                                   ![s].pc = "entries"]
           /\ cacheFile' = IF IsSome(ToJson(sorted))
                           THEN [exists |-> TRUE, readable |-> TRUE,
                                 text |-> Unwrap(ToJson(sorted)), by |-> s]
                           ELSE cacheFile
    /\ startResult' = "none"
    /\ snap' = None
    /\ UNCHANGED nonStoreVars
    /\ UNCHANGED <<entries, is_indexing, indexed_count, icons, nScans, load>>

\* A task that sorts and publishes what it has gathered at any point of the
\* walk.
ScanSortEarly(s) ==
    /\ scan[s].pc = "walk"
    /\ \E sorted \in {SortPrograms(scan[s].programs)} :
          scan' = [scan EXCEPT ![s].programs = sorted, ![s].count = Len(sorted),
                               ![s].pc = "entries"]
    /\ startResult' = "none"
    /\ snap' = None
    /\ UNCHANGED nonStoreVars
    /\ UNCHANGED <<entries, is_indexing, indexed_count, cacheFile, icons, nScans, load>>

\* After the last root: programs.sort_by and count = programs.len().
ScanSort(s) ==
    /\ scan[s].pc = "walk"
    /\ Remaining(scan[s].fs, scan[s].i) = {}
    /\ \E sorted \in {SortPrograms(scan[s].programs)} :
          scan' = [scan EXCEPT ![s].programs = sorted, ![s].count = Len(sorted),
                               ![s].pc = "entries"]
    /\ startResult' = "none"
    /\ snap' = None
    /\ UNCHANGED nonStoreVars
    /\ UNCHANGED <<entries, is_indexing, indexed_count, cacheFile, icons, nScans, load>>

\* A task that clears the flag as soon as the list is written, before the count.
ScanPublishEntriesThenClear(s) ==
    /\ scan[s].pc = "entries"
    /\ entries' = scan[s].programs
    /\ is_indexing' = FALSE
    /\ scan' = [scan EXCEPT ![s].pc = "count"]
    /\ startResult' = "none"
    /\ snap' = None
    /\ UNCHANGED nonStoreVars
    /\ UNCHANGED <<indexed_count, cacheFile, icons, nScans, load>>

\* *e = programs, under the write lock of entries.
ScanPublishEntries(s) ==
    /\ scan[s].pc = "entries"
    /\ entries' = scan[s].programs
    /\ scan' = [scan EXCEPT ![s].pc = "count"]
    /\ startResult' = "none"
    /\ snap' = None
    /\ UNCHANGED nonStoreVars
    /\ UNCHANGED <<is_indexing, indexed_count, cacheFile, icons, nScans, load>>

\* *cnt = count, under the write lock of indexed_count.
ScanPublishCount(s) ==
    /\ scan[s].pc = "count"
    /\ indexed_count' = scan[s].count
    /\ scan' = [scan EXCEPT ![s].pc = "flag"]
    /\ startResult' = "none"
    /\ snap' = None
    /\ UNCHANGED nonStoreVars
    /\ UNCHANGED <<entries, is_indexing, cacheFile, icons, nScans, load>>

\* *idx = false, under the write lock of is_indexing.
ScanClearFlag(s) ==
    /\ scan[s].pc = "flag"
    /\ is_indexing' = FALSE
    /\ scan' = [scan EXCEPT ![s].pc = "snapshot"]
    /\ startResult' = "none"
    /\ snap' = None
    /\ UNCHANGED nonStoreVars
    /\ UNCHANGED <<entries, indexed_count, cacheFile, icons, nScans, load>>

\* entries_snapshot = entries.read().await.clone()
ScanSnapshot(s) ==
    /\ scan[s].pc = "snapshot"
    /\ scan' = [scan EXCEPT ![s].snapshot = entries, ![s].pc = "save"]
    /\ startResult' = "none"
    /\ snap' = None
    /\ UNCHANGED nonStoreVars
    /\ UNCHANGED <<entries, is_indexing, indexed_count, cacheFile, icons, nScans, load>>

\* save_cache_sync, to the point where fs::write has created or truncated the
\* file. A serialization error, or a file that cannot be opened, ends it with
\* the file as it was.
ScanSaveOpen(s) ==
    /\ scan[s].pc = "save"
    /\ \/ /\ IsSome(ToJson(scan[s].snapshot))
          /\ cacheFile' = [exists |-> TRUE, readable |-> TRUE, text |-> <<>>, by |-> s]
          /\ scan' = [scan EXCEPT ![s].pc = "write"]
       \/ /\ cacheFile' = cacheFile
          /\ scan' = [scan EXCEPT ![s] = EndedScan(scan[s], "failed")]
    /\ startResult' = "none"
    /\ snap' = None
    /\ UNCHANGED nonStoreVars
    /\ UNCHANGED <<entries, is_indexing, indexed_count, icons, nScans, load>>

\* A save whose failure is taken for a failed scan: the publication is undone.
ScanSaveWriteRollback(s) ==
    /\ scan[s].pc = "write"
    /\ \/ /\ cacheFile' = [cacheFile EXCEPT !.text = Unwrap(ToJson(scan[s].snapshot)),
                                            !.by = s]
          /\ scan' = [scan EXCEPT ![s] = EndedScan(scan[s], "written")]
          /\ UNCHANGED <<entries, indexed_count>>
       \/ /\ cacheFile' = cacheFile
          /\ scan' = [scan EXCEPT ![s] = EndedScan(scan[s], "failed")]
          /\ entries' = <<>>
          /\ indexed_count' = 0
    /\ startResult' = "none"
    /\ snap' = None
    /\ UNCHANGED nonStoreVars
    /\ UNCHANGED <<is_indexing, icons, nScans, load>>

\* save_cache_sync: fs::write writes the text, or fails and leaves the file cut
\* short; the result is dropped either way.
ScanSaveWrite(s) ==
    /\ scan[s].pc = "write"
    /\ \/ /\ cacheFile' = [cacheFile EXCEPT !.text = Unwrap(ToJson(scan[s].snapshot)),
                                            !.by = s]
          /\ scan' = [scan EXCEPT ![s] = EndedScan(scan[s], "written")]
       \/ /\ cacheFile' = cacheFile
          /\ scan' = [scan EXCEPT ![s] = EndedScan(scan[s], "failed")]
    /\ startResult' = "none"
    /\ snap' = None
    /\ UNCHANGED nonStoreVars
    /\ UNCHANGED <<entries, is_indexing, indexed_count, icons, nScans, load>>

\* ------------------------------------------------------------------ load_cache

\* load_cache begins: cache_path.exists(). A missing file returns false.
LoadExists ==
    /\ load.pc = "idle"
    /\ load' = IF cacheFile.exists THEN [load EXCEPT !.pc = "read"]
               ELSE [load EXCEPT !.pc = "done", !.ret = Some(FALSE)]
    /\ startResult' = "none"
    /\ snap' = None
    /\ UNCHANGED nonStoreVars
    /\ UNCHANGED <<entries, is_indexing, indexed_count, cacheFile, icons, scan, nScans>>

\* A load_cache that takes a file it cannot read or parse for an empty list.
LoadReadOrDefault ==
    /\ load.pc = "read"
    /\ LET data   == IF cacheFile.exists /\ cacheFile.readable
                     THEN Some(cacheFile.text) ELSE None
           parsed == IF IsSome(data) THEN FromJson(Unwrap(data)) ELSE None
       IN  load' = IF IsSome(parsed)
                   THEN [load EXCEPT !.pc = "entries", !.data = Unwrap(data),
                                     !.cached = Unwrap(parsed),
                                     !.count = Len(Unwrap(parsed))]
                   ELSE [load EXCEPT !.pc = "entries", !.cached = <<>>, !.count = 0]
    /\ startResult' = "none"
    /\ snap' = None
    /\ UNCHANGED nonStoreVars
    /\ UNCHANGED <<entries, is_indexing, indexed_count, cacheFile, icons, scan, nScans>>

\* fs::read_to_string and serde_json::from_str: an error of either returns
\* false; a parsed list is kept with its length for the two writes.
LoadRead ==
    /\ load.pc = "read"
    /\ LET data   == IF cacheFile.exists /\ cacheFile.readable
                     THEN Some(cacheFile.text) ELSE None
           parsed == IF IsSome(data) THEN FromJson(Unwrap(data)) ELSE None
       IN  load' = IF IsSome(parsed)
                   THEN [load EXCEPT !.pc = "entries", !.data = Unwrap(data),
                                     !.cached = Unwrap(parsed),
                                     !.count = Len(Unwrap(parsed))]
                   ELSE [load EXCEPT !.pc = "done", !.ret = Some(FALSE)]
    /\ startResult' = "none"
    /\ snap' = None
    /\ UNCHANGED nonStoreVars
    /\ UNCHANGED <<entries, is_indexing, indexed_count, cacheFile, icons, scan, nScans>>

\* *e = cached, under the write lock of entries.
LoadPublishEntries ==
    /\ load.pc = "entries"
    /\ entries' = load.cached
    /\ load' = [load EXCEPT !.pc = "count"]
    /\ startResult' = "none"
    /\ snap' = None
    /\ UNCHANGED nonStoreVars
    /\ UNCHANGED <<is_indexing, indexed_count, cacheFile, icons, scan, nScans>>

\* A load_cache that returns true without writing the count.
LoadReturnWithoutCount ==
    /\ load.pc = "count"
    /\ load' = [load EXCEPT !.pc = "done", !.ret = Some(TRUE)]
    /\ startResult' = "none"
    /\ snap' = None
    /\ UNCHANGED nonStoreVars
    /\ UNCHANGED <<entries, is_indexing, indexed_count, cacheFile, icons, scan, nScans>>

\* *c = count, under the write lock of indexed_count; then true is returned.
LoadPublishCount ==
    /\ load.pc = "count"
    /\ indexed_count' = load.count
    /\ load' = [load EXCEPT !.pc = "done", !.ret = Some(TRUE)]
    /\ startResult' = "none"
    /\ snap' = None
    /\ UNCHANGED nonStoreVars
    /\ UNCHANGED <<entries, is_indexing, cacheFile, icons, scan, nScans>>

\* ------------------------------------------------------------------ specification

\* The index and its callers: readers and calls of start_indexing at any time,
\* the scan tasks they spawn, and the one call of load_cache (App::new), which
\* is let run at any time.
Next ==
    \/ get_entries
    \/ start_indexing_busy
    \/ start_indexing_spawn
    \/ \E s \in 1..MaxScans : ScanWalk(s)
    \/ \E s \in 1..MaxScans : ScanSort(s)
    \/ \E s \in 1..MaxScans : ScanPublishEntries(s)
    \/ \E s \in 1..MaxScans : ScanPublishCount(s)
    \/ \E s \in 1..MaxScans : ScanClearFlag(s)
    \/ \E s \in 1..MaxScans : ScanSnapshot(s)
    \/ \E s \in 1..MaxScans : ScanSaveOpen(s)
    \/ \E s \in 1..MaxScans : ScanSaveWrite(s)
    \/ LoadExists
    \/ LoadRead
    \/ LoadPublishEntries
    \/ LoadPublishCount

Spec == Init /\ [][Next]_vars

\* App::new and App::update: load_cache is called only as the application
\* starts, and StartIndexing is sent only once CacheLoaded has arrived (or at
\* once, with the cache disabled, and load_cache is then never called).
AppLoadCache == nScans = 0 /\ LoadExists

AppStartIndexing == load.pc \in {"idle", "done"} /\ start_indexing_spawn

\* The index as the application starts it: load_cache, when called, returns
\* before start_indexing is first called.
StartupNext ==
    \/ get_entries
    \/ start_indexing_busy
    \/ AppStartIndexing
    \/ \E s \in 1..MaxScans : ScanWalk(s)
    \/ \E s \in 1..MaxScans : ScanSort(s)
    \/ \E s \in 1..MaxScans : ScanPublishEntries(s)
    \/ \E s \in 1..MaxScans : ScanPublishCount(s)
    \/ \E s \in 1..MaxScans : ScanClearFlag(s)
    \/ \E s \in 1..MaxScans : ScanSnapshot(s)
    \/ \E s \in 1..MaxScans : ScanSaveOpen(s)
    \/ \E s \in 1..MaxScans : ScanSaveWrite(s)
    \/ AppLoadCache
    \/ LoadRead
    \/ LoadPublishEntries
    \/ LoadPublishCount

SpecStartup == Init /\ [][StartupNext]_vars

\* ------------------------------------------------------------------ one scan

\* Every directory tree the walk entries can make up.
AllFileSystems == SUBSET (1..Len(Candidates))

\* A fresh index and no cache file.
ScanInit ==
    /\ NoSearch
    /\ entries = <<>>
    /\ is_indexing = FALSE
    /\ indexed_count = 0
    /\ cacheFile = [exists |-> FALSE, readable |-> FALSE, text |-> <<>>, by |-> 0]
    /\ icons = {}
    /\ scan = [s \in 1..MaxScans |-> IdleScan]
    /\ nScans = 0
    /\ load = IdleLoad
    /\ startResult = "none"
    /\ snap = None

\* The first start_indexing of the run, over any of the trees.
FirstScan ==
    /\ ~is_indexing
    /\ nScans = 0
    /\ \E fs \in AllFileSystems :
          scan' = [scan EXCEPT ![1] = SpawnedScan(fs)]
    /\ is_indexing' = TRUE
    /\ nScans' = 1
    /\ startResult' = "spawned"
    /\ snap' = None
    /\ UNCHANGED nonStoreVars
    /\ UNCHANGED <<entries, indexed_count, cacheFile, icons, load>>

ScanNext ==
    \/ FirstScan
    \/ ScanWalk(1)
    \/ ScanSort(1)
    \/ ScanPublishEntries(1)
    \/ ScanPublishCount(1)
    \/ ScanClearFlag(1)
    \/ ScanSnapshot(1)
    \/ ScanSaveOpen(1)
    \/ ScanSaveWrite(1)

\* One scan of a fresh index, from start_indexing to the end of its task.
SpecScan == ScanInit /\ [][ScanNext]_vars

\* One scan under a runtime that runs the blocking task to its end.
SpecScanFair == SpecScan /\ WF_vars(ScanNext)

\* ------------------------------------------------------------------ successive scans

\* The trees that successive scans may find: programs come and go between
\* two calls of start_indexing. Every list over them can be serialized.
ChangingFileSystems == { {1, 2, 6, 8}, {5, 6} }

\* start_indexing with the flag clear, called again and again on one index.
Rescan ==
    /\ ~is_indexing
    /\ nScans < MaxScans
    /\ \E fs \in ChangingFileSystems :
          scan' = [scan EXCEPT ![nScans + 1] = SpawnedScan(fs)]
    /\ is_indexing' = TRUE
    /\ nScans' = nScans + 1
    /\ startResult' = "spawned"
    /\ snap' = None
    /\ UNCHANGED nonStoreVars
    /\ UNCHANGED <<entries, indexed_count, cacheFile, icons, load>>

RescanNext ==
    \/ start_indexing_busy
    \/ Rescan
    \/ \E s \in 1..MaxScans : ScanWalk(s)
    \/ \E s \in 1..MaxScans : ScanSort(s)
    \/ \E s \in 1..MaxScans : ScanPublishEntries(s)
    \/ \E s \in 1..MaxScans : ScanPublishCount(s)
    \/ \E s \in 1..MaxScans : ScanClearFlag(s)
    \/ \E s \in 1..MaxScans : ScanSnapshot(s)
    \/ \E s \in 1..MaxScans : ScanSaveOpen(s)
    \/ \E s \in 1..MaxScans : ScanSaveWrite(s)

\* Successive scans of one index that starts without a cache file;
\* load_cache is never called.
SpecRescan == ScanInit /\ [][RescanNext]_vars

\* ------------------------------------------------------------------ one walk entry

\* File stems: none that is valid Unicode, a plain one, one with a character
\* that icon file names drop, and one with an excluded word in mixed case. A
\* stem is never empty when the name has an extension (Path::file_stem).
Stems == { None, Some(<<"A", "l">>), Some(<<"A", ".", "l">>),
           Some(<<"U", "n", "I", "n", "s", "t">>) }

\* Extensions: none, those of the two sources in either case, and another.
Exts == { None, Some(<<"l", "n", "k">>), Some(<<"L", "N", "K">>), Some(<<"e", "x", "e">>),
          Some(<<"t", "x", "t">>) }

\* The name a shortcut holds: none, an empty one, one that differs from a
\* plain stem by case only, and one with an excluded word.
LnkNames == { None, Some(<<>>), Some(<<"a", "l">>), Some(<<"S", "e", "t", "u", "p">>) }

\* The depths below a root: within both limits, beyond that of Program Files,
\* beyond both.
Depths == {2, 3, 6}

\* What a file of extension x holds as a shortcut: any outcome of opening it,
\* name and base path for the extension of a shortcut, nothing for another.
ShortcutHolds(x) ==
    IF IsSome(x) /\ ToLowercase(Unwrap(x)) = <<"l", "n", "k">>
    THEN [lnk : {"ok", "err", "panic"}, lnkName : LnkNames,
          basePath : {None, Some("pf\\target.exe")}]
    ELSE { [lnk |-> "n/a", lnkName |-> None, basePath |-> None] }

\* The walk entries one iteration of index_directory may be given.
FileKinds ==
    UNION { { [root |-> r, path |-> IF r = StartMenu THEN "sm\\file" ELSE "pf\\file",
               readable |-> rd, depth |-> d, isFile |-> isf, stem |-> st, ext |-> x,
               lnk |-> h.lnk, lnkName |-> h.lnkName, basePath |-> h.basePath, iconOk |-> ok] :
              r \in {StartMenu, ProgramFiles}, rd \in BOOLEAN, d \in Depths, isf \in BOOLEAN,
              st \in Stems, ok \in BOOLEAN, h \in ShortcutHolds(x) } : x \in Exts }

\* What the iterations before have left: nothing, or the entry of a file named
\* Al with its key.
EarlierWalks ==
    { [programs |-> <<>>, seen |-> {}],
      [programs |-> <<ProgramEntry("sm\\first.lnk", <<"a", "l">>, <<"A", "l">>, StartMenu, None)>>,
       seen |-> {<<"a", "l">>}] }

\* The icon directory: empty, or with the icon of the name Al from an earlier
\* run.
IconDirs == { {}, {IconFileName(<<"A", "l">>)} }

\* A scan task in its walk, about to be given one walk entry.
StepInit ==
    /\ query = <<>>
    /\ given = <<>>
    /\ results = None
    /\ max_results = default_max_results
    /\ shown = None
    /\ enable_cache = default_enable_cache
    /\ app = NewApp
    /\ cmd = NoCmd
    /\ searches = <<>>
    /\ opened = None
    /\ file \in FileKinds
    /\ entries = <<>>
    /\ is_indexing = TRUE
    /\ indexed_count = 0
    /\ cacheFile = [exists |-> FALSE, readable |-> FALSE, text |-> <<>>, by |-> 0]
    /\ icons \in IconDirs
    /\ \E w \in EarlierWalks :
          scan = [s \in 1..MaxScans |->
                     IF s = 1 THEN [SpawnedScan({}) EXCEPT !.programs = w.programs,
                                                         !.seen = w.seen]
                     ELSE IdleScan]
    /\ nScans = 1
    /\ load = IdleLoad
    /\ startResult = "none"
    /\ snap = None

\* The iteration of index_directory's loop on the walk entry.
IndexFile ==
    /\ scan[1].pc = "walk"
    /\ scan[1].i = 0
    /\ \E w \in {index_directory_step(file,
                    [programs |-> scan[1].programs, seen |-> scan[1].seen, icons |-> icons])} :
           /\ scan' = [scan EXCEPT ![1].i = 1, ![1].programs = w.programs,
                                   ![1].seen = w.seen]
           /\ icons' = w.icons
    /\ startResult' = "none"
    /\ snap' = None
    /\ UNCHANGED nonStoreVars
    /\ UNCHANGED <<entries, is_indexing, indexed_count, cacheFile, nScans, load>>

StepNext == IndexFile

\* One iteration of index_directory, on any walk entry.
SpecStep == StepInit /\ [][StepNext]_vars

\* ------------------------------------------------------------------ save, then load

\* load_cache called once the scan's task has ended.
LoadAfterScan == scan[1].pc = "done" /\ LoadExists

RoundTripNext ==
    \/ ScanNext
    \/ LoadAfterScan
    \/ LoadRead
    \/ LoadPublishEntries
    \/ LoadPublishCount

\* One scan of a fresh index with its save_cache_sync, then load_cache.
SpecRoundTrip == ScanInit /\ [][RoundTripNext]_vars

\* ------------------------------------------------------------------ search alone

\* The longest entry list a search is given.
MaxGiven == 52

\* The values of max_results a configuration gives: none, the default, the
\* cap of search, and more than the cap.
MaxResultsValues == {0, default_max_results, ResultLimit, ResultLimit + 10}

\* The letters of the generated display names.
NameLetters == <<"b", "a", "A">>

\* The i-th generated entry: its display name is i written with NameLetters,
\* its short name the lower-cased display name or, for every fifth, the stem
\* of a shortcut whose name differs from its file's.
GenName(i) ==
    <<NameLetters[((i \div 27) % 3) + 1], NameLetters[((i \div 9) % 3) + 1],
      NameLetters[((i \div 3) % 3) + 1], NameLetters[(i % 3) + 1]>>

GenEntry(i) ==
    ProgramEntry(ToString(i),
                 IF i % 5 = 0 THEN <<"z", "a", "p">> ELSE ToLowercase(GenName(i)),
                 GenName(i),
                 IF i % 2 = 0 \/ i % 5 = 0 THEN StartMenu ELSE ProgramFiles,
                 None)

GivenLengths == {0, 1, 2, 3, 19, 20, 21, 25, 49, 50, 51, MaxGiven}

\* Shortcuts and programs of one file stem "ab": the display name of a
\* shortcut is the name its target carries, which need not begin as the stem.
NamedEntries ==
    <<ProgramEntry("sm\\ab.lnk", <<"a", "b">>, <<"B", "a", "b">>, StartMenu, None),
      ProgramEntry("sm\\x\\ab.lnk", <<"a", "b">>, <<"b", "a", "b">>, StartMenu, None),
      ProgramEntry("pf\\ab.exe", <<"a", "b">>, <<"a", "b">>, ProgramFiles, None),
      ProgramEntry("sm\\Ab.lnk", <<"a", "b">>, <<"A", "b">>, StartMenu, None)>>

GivenLists ==
    {[k \in 1..n |-> GenEntry(off + k)] : n \in GivenLengths, off \in {0, 7, 20}}
        \cup {NamedEntries, SubSeq(NamedEntries, 2, 3)}

Queries == {<<>>, <<"a">>, <<"A">>, <<"a", "b">>, <<"b", "b">>, <<"z">>, <<"b", "z">>}

\* The index untouched, and a query and an entry list for one search.
SearchInit ==
    /\ entries = <<>>
    /\ is_indexing = FALSE
    /\ indexed_count = 0
    /\ cacheFile = [exists |-> FALSE, readable |-> FALSE, text |-> <<>>, by |-> 0]
    /\ icons = {}
    /\ scan = [s \in 1..MaxScans |-> IdleScan]
    /\ nScans = 0
    /\ load = IdleLoad
    /\ startResult = "none"
    /\ snap = None
    /\ query \in Queries
    /\ given \in GivenLists
    /\ results = None
    /\ max_results \in MaxResultsValues
    /\ shown = None
    /\ enable_cache = default_enable_cache
    /\ app = NewApp
    /\ cmd = NoCmd
    /\ searches = <<>>
    /\ opened = None
    /\ file = None

\* One call of search(query, given).
Search ==
    /\ results = None
    /\ results' = Some(search(query, given))
    /\ UNCHANGED <<query, given, max_results, shown>>
    /\ UNCHANGED <<storeVars, appVars, outsideVars>>

\* The rest of perform_search: the first max_results results, as
\* ProgramResults.
PerformSearchTake ==
    /\ IsSome(results)
    /\ shown = None
    /\ shown' = Some(TakeResults(Unwrap(results), max_results))
    /\ UNCHANGED <<query, given, results, max_results>>
    /\ UNCHANGED <<storeVars, appVars, outsideVars>>

SearchNext == Search \/ PerformSearchTake

SpecSearch == SearchInit /\ [][SearchNext]_vars

\* ------------------------------------------------------------------ application

\* The most query changes the user makes in a run.
MaxTyped == 1

\* The queries the user types: the empty one (the field is cleared) and one
\* that matches some entries.
TypedQueries == { <<>>, <<"a">> }

\* An App::new that returns, with the cache enabled, the future of load_cache
\* together with the future that sends StartIndexing.
NewCmdBoth(cache) == IF cache THEN [NoCmd EXCEPT !.load = "pending", !.start = 1]
                     ELSE [NoCmd EXCEPT !.start = 1]

\* App::new: the command it returns is the future of load_cache with the cache
\* enabled, and the future that sends StartIndexing without.
NewCmd(cache) == IF cache THEN [NoCmd EXCEPT !.load = "pending"]
                 ELSE [NoCmd EXCEPT !.start = 1]

\* The cache file as the application finds it: none, or the one an earlier
\* run saved.
AppCacheFiles == {f \in InitialCacheFiles :
                     ~f.exists \/ (f.readable /\ IsSome(FromJson(f.text)))}

\* The application as App::new leaves it, over a fresh index.
AppInit ==
    /\ query = <<>>
    /\ given = <<>>
    /\ results = None
    /\ max_results = default_max_results
    /\ shown = None
    /\ enable_cache \in BOOLEAN
    /\ app = NewApp
    /\ cmd = NewCmd(enable_cache)
    /\ searches = <<>>
    /\ opened = None
    /\ file = None
    /\ entries = <<>>
    /\ is_indexing = FALSE
    /\ indexed_count = 0
    /\ cacheFile \in AppCacheFiles
    /\ icons = {}
    /\ scan = [s \in 1..MaxScans |-> IdleScan]
    /\ nScans = 0
    /\ load = IdleLoad
    /\ startResult = "none"
    /\ snap = None

\* A step of App::update, or a read of the index by a future: the index and
\* the lone searches are left alone.
IndexUntouched ==
    /\ startResult' = "none"
    /\ snap' = None
    /\ UNCHANGED <<entries, is_indexing, indexed_count, cacheFile, icons, scan, nScans, load>>
    /\ UNCHANGED <<searchVars, outsideVars>>

\* The commands in flight once the i-th has sent its message.
Without(cs, i) == [j \in 1..(Len(cs) - 1) |-> IF j < i THEN cs[j] ELSE cs[j + 1]]

\* perform_search: the command it returns, a future that has still to call
\* get_entries, with the query cloned from the application.
perform_search(q) == [pc |-> "get", query |-> q, entries |-> <<>>, out |-> <<>>]

\* The future of load_cache begins (the later steps are those of load_cache).
CmdLoadCache == cmd.load = "pending" /\ LoadExists

\* A CacheLoaded that, with true, returns the search alone: the cached list is
\* shown and no scan is started.
CacheLoadedWithoutRescan ==
    /\ cmd.load = "pending"
    /\ load.pc = "done"
    /\ searches' = IF Unwrap(load.ret)
                   THEN Append(searches, perform_search(app.search_query))
                   ELSE searches
    /\ cmd' = [cmd EXCEPT !.load = "handled",
                          !.start = IF Unwrap(load.ret) THEN @ ELSE @ + 1]
    /\ UNCHANGED <<enable_cache, app>>
    /\ IndexUntouched

\* Message::CacheLoaded: with true a search and the sending of StartIndexing,
\* with false the sending of StartIndexing alone.
CacheLoaded ==
    /\ cmd.load = "pending"
    /\ load.pc = "done"
    /\ searches' = IF Unwrap(load.ret)
                   THEN Append(searches, perform_search(app.search_query))
                   ELSE searches
    /\ cmd' = [cmd EXCEPT !.load = "handled", !.start = @ + 1]
    /\ UNCHANGED <<enable_cache, app>>
    /\ IndexUntouched

\* Message::StartIndexing: unless the application is indexing, it sets its
\* flag and returns the future that calls start_indexing.
StartIndexing ==
    /\ cmd.start > 0
    /\ IF ~app.is_indexing
       THEN /\ app' = [app EXCEPT !.is_indexing = TRUE]
            /\ cmd' = [cmd EXCEPT !.start = @ - 1, !.index = "start"]
       ELSE /\ app' = app
            /\ cmd' = [cmd EXCEPT !.start = @ - 1]
    /\ UNCHANGED <<enable_cache, searches>>
    /\ IndexUntouched

\* The future of StartIndexing calls start_indexing, which tests and sets the
\* flag of the index and spawns the scan over the trees as they are.
CmdStartIndexing ==
    /\ cmd.index = "start"
    /\ IF is_indexing
       THEN /\ startResult' = "busy"
            /\ UNCHANGED <<is_indexing, scan, nScans>>
       ELSE /\ nScans < MaxScans
            /\ \E fs \in FileSystems :
                  scan' = [scan EXCEPT ![nScans + 1] = SpawnedScan(fs)]
            /\ is_indexing' = TRUE
            /\ nScans' = nScans + 1
            /\ startResult' = "spawned"
    /\ snap' = None
    /\ cmd' = [cmd EXCEPT !.index = "started"]
    /\ UNCHANGED <<entries, indexed_count, cacheFile, icons, load>>
    /\ UNCHANGED <<searchVars, outsideVars, enable_cache, app, searches>>

\* An IndexingProgress that stops polling once the flag is reported clear and
\* returns no command.
IndexingProgressWithoutRefresh ==
    /\ cmd.index \in {"started", "msg"}
    /\ LET is_idx == IF cmd.index = "started" THEN TRUE ELSE cmd.flag
           count  == IF cmd.index = "started" THEN 0 ELSE cmd.count
       IN  /\ app' = [app EXCEPT !.is_indexing = is_idx, !.indexed_count = count]
           /\ cmd' = [cmd EXCEPT !.index = IF is_idx THEN "flag" ELSE "none",
                                 !.flag = FALSE, !.count = 0]
           /\ searches' = searches
    /\ UNCHANGED enable_cache
    /\ IndexUntouched

\* Message::IndexingProgress, sent by the future of StartIndexing with
\* (true, 0) and by a poll with what it read: the two fields are set, and a
\* poll is returned while indexing, a search once it is over.
IndexingProgress ==
    /\ cmd.index \in {"started", "msg"}
    /\ LET is_idx == IF cmd.index = "started" THEN TRUE ELSE cmd.flag
           count  == IF cmd.index = "started" THEN 0 ELSE cmd.count
       IN  /\ app' = [app EXCEPT !.is_indexing = is_idx, !.indexed_count = count]
           /\ cmd' = [cmd EXCEPT !.index = IF is_idx THEN "flag" ELSE "none",
                                 !.flag = FALSE, !.count = 0]
           /\ searches' = IF is_idx THEN searches
                          ELSE Append(searches, perform_search(app.search_query))
    /\ UNCHANGED enable_cache
    /\ IndexUntouched

\* The poll, after its sleep: index.is_indexing().
CmdPollFlag ==
    /\ cmd.index = "flag"
    /\ cmd' = [cmd EXCEPT !.index = "count", !.flag = is_indexing]
    /\ UNCHANGED <<enable_cache, app, searches>>
    /\ IndexUntouched

\* The poll: index.indexed_count(), and its message is ready.
CmdPollCount ==
    /\ cmd.index = "count"
    /\ cmd' = [cmd EXCEPT !.index = "msg", !.count = indexed_count]
    /\ UNCHANGED <<enable_cache, app, searches>>
    /\ IndexUntouched

\* Message::SearchChanged: the query is set, the selection reset, and a search
\* returned.
SearchChanged(q) ==
    /\ cmd.typed < MaxTyped
    /\ app' = [app EXCEPT !.search_query = q, !.selected_index = 0]
    /\ searches' = Append(searches, perform_search(q))
    /\ cmd' = [cmd EXCEPT !.typed = @ + 1]
    /\ UNCHANGED enable_cache
    /\ IndexUntouched

\* A future of perform_search that takes what the scan task has gathered so
\* far, when a scan is walking, in place of the published list.
CmdSearchGetEntriesPartial(i) ==
    /\ searches[i].pc = "get"
    /\ searches' = [searches EXCEPT
                       ![i].pc = "search",
                       ![i].entries = IF nScans > 0 /\ scan[nScans].pc = "walk"
                                      THEN scan[nScans].programs ELSE entries]
    /\ UNCHANGED <<enable_cache, app, cmd>>
    /\ IndexUntouched

\* The future of perform_search: index.get_entries().
CmdSearchGetEntries(i) ==
    /\ searches[i].pc = "get"
    /\ searches' = [searches EXCEPT ![i].pc = "search", ![i].entries = entries]
    /\ UNCHANGED <<enable_cache, app, cmd>>
    /\ IndexUntouched

\* A future of perform_search whose search reads the shared list, not its clone.
CmdSearchRunShared(i) ==
    /\ searches[i].pc = "search"
    /\ searches' = [searches EXCEPT
                       ![i].pc = "msg",
                       ![i].out = TakeResults(search(searches[i].query, entries),
                                              max_results)]
    /\ UNCHANGED <<enable_cache, app, cmd>>
    /\ IndexUntouched

\* The future of perform_search: the search over its clone, cut to
\* max_results; its message is ready.
CmdSearchRun(i) ==
    /\ searches[i].pc = "search"
    /\ searches' = [searches EXCEPT
                       ![i].pc = "msg",
                       ![i].out = TakeResults(search(searches[i].query, searches[i].entries),
                                              max_results)]
    /\ UNCHANGED <<enable_cache, app, cmd>>
    /\ IndexUntouched

\* A SearchCompleted that shows the results and leaves the selection where it
\* was.
SearchCompletedKeepSelection(i) ==
    /\ searches[i].pc = "msg"
    /\ app' = [app EXCEPT !.search_results = searches[i].out]
    /\ searches' = Without(searches, i)
    /\ UNCHANGED <<enable_cache, cmd>>
    /\ IndexUntouched

\* Message::SearchCompleted: the results are shown, and a selection beyond
\* them goes back to the first.
SearchCompleted(i) ==
    /\ searches[i].pc = "msg"
    /\ app' = [app EXCEPT !.search_results = searches[i].out,
                          !.selected_index = IF @ >= Len(searches[i].out) THEN 0 ELSE @]
    /\ searches' = Without(searches, i)
    /\ UNCHANGED <<enable_cache, cmd>>
    /\ IndexUntouched

AppNext ==
    \/ CmdLoadCache
    \/ LoadRead
    \/ LoadPublishEntries
    \/ LoadPublishCount
    \/ CacheLoaded
    \/ StartIndexing
    \/ CmdStartIndexing
    \/ \E s \in 1..MaxScans : ScanWalk(s)
    \/ \E s \in 1..MaxScans : ScanSort(s)
    \/ \E s \in 1..MaxScans : ScanPublishEntries(s)
    \/ \E s \in 1..MaxScans : ScanPublishCount(s)
    \/ \E s \in 1..MaxScans : ScanClearFlag(s)
    \/ \E s \in 1..MaxScans : ScanSnapshot(s)
    \/ \E s \in 1..MaxScans : ScanSaveOpen(s)
    \/ \E s \in 1..MaxScans : ScanSaveWrite(s)
    \/ IndexingProgress
    \/ CmdPollFlag
    \/ CmdPollCount
    \/ \E q \in TypedQueries : SearchChanged(q)
    \/ \E i \in 1..Len(searches) : CmdSearchGetEntries(i)
    \/ \E i \in 1..Len(searches) : CmdSearchRun(i)
    \/ \E i \in 1..Len(searches) : SearchCompleted(i)

\* The application from App::new on: its messages, the futures of its
\* commands, and the scan task and load_cache they run.
SpecApp == AppInit /\ [][AppNext]_vars

\* The steps of the blocking task spawn_blocking runs.
ScanTask ==
    \E s \in 1..MaxScans :
        \/ ScanWalk(s)
        \/ ScanSort(s)
        \/ ScanPublishEntries(s)
        \/ ScanPublishCount(s)
        \/ ScanClearFlag(s)
        \/ ScanSnapshot(s)
        \/ ScanSaveOpen(s)
        \/ ScanSaveWrite(s)

\* The messages of the start-up and of the polling, and the futures that send
\* them.
StartupAndPolling ==
    \/ CmdLoadCache
    \/ LoadRead
    \/ LoadPublishEntries
    \/ LoadPublishCount
    \/ CacheLoaded
    \/ StartIndexing
    \/ CmdStartIndexing
    \/ IndexingProgress
    \/ CmdPollFlag
    \/ CmdPollCount

\* The application under a runtime that runs the blocking task on its thread
\* and polls every spawned future, and an event loop that takes every message.
SpecAppFair == SpecApp /\ WF_vars(ScanTask) /\ WF_vars(StartupAndPolling)

\* ------------------------------------------------------------------ keys and launches

\* The keys told apart by Message::KeyPressed, and one of all the others.
Keys == {"ArrowDown", "ArrowUp", "Enter", "Escape", "Tab"}

\* The lists the index may hold once the application is at rest.
RestLists == { <<>>, NamedEntries, SubSeq(NamedEntries, 2, 3), EarlierSaved }

\* The application at rest: the startup commands are done, the index holds a
\* published list, and the results of the empty query over it are shown.
KeysInit ==
    /\ query = <<>>
    /\ given = <<>>
    /\ results = None
    /\ max_results = default_max_results
    /\ shown = None
    /\ enable_cache = default_enable_cache
    /\ entries \in RestLists
    /\ app = [NewApp EXCEPT !.search_results = TakeResults(search(<<>>, entries), max_results),
                            !.indexed_count = Len(entries)]
    /\ cmd = NoCmd
    /\ searches = <<>>
    /\ opened = None
    /\ file = None
    /\ is_indexing = FALSE
    /\ indexed_count = Len(entries)
    /\ cacheFile = [exists |-> FALSE, readable |-> FALSE, text |-> <<>>, by |-> 0]
    /\ icons = {}
    /\ scan = [s \in 1..MaxScans |-> IdleScan]
    /\ nScans = 0
    /\ load = IdleLoad
    /\ startResult = "none"
    /\ snap = None

\* A step of App::update that issues no command and leaves the index alone.
NoCommand ==
    /\ startResult' = "none"
    /\ snap' = None
    /\ UNCHANGED <<entries, is_indexing, indexed_count, cacheFile, icons, scan, nScans, load>>
    /\ UNCHANGED <<searchVars, file, enable_cache, cmd, searches>>

\* A launch that goes back to the first result when the open fails.
LaunchSelectedOrReset ==
    /\ \E ok \in BOOLEAN :
          /\ opened' = IF app.selected_index < Len(app.search_results)
                       THEN Some([path |-> app.search_results[app.selected_index + 1].path,
                                  ok |-> ok])
                       ELSE opened
          /\ app' = IF ok THEN app ELSE [app EXCEPT !.selected_index = 0]
    /\ NoCommand

\* Message::LaunchSelected: the path of the selected result, if there is one,
\* is handed to open::that, whose result is dropped.
LaunchSelected ==
    /\ \E ok \in BOOLEAN :
          opened' = IF app.selected_index < Len(app.search_results)
                    THEN Some([path |-> app.search_results[app.selected_index + 1].path,
                               ok |-> ok])
                    ELSE opened
    /\ UNCHANGED app
    /\ NoCommand

\* Message::KeyPressed: the arrows move the selection round the results, Enter
\* launches as LaunchSelected does, Escape clears the query and searches, and
\* any other key does nothing.
KeyPressed(key) ==
    CASE key = "ArrowDown" ->
            /\ app' = IF app.search_results # <<>>
                      THEN [app EXCEPT !.selected_index = (@ + 1) % Len(app.search_results)]
                      ELSE app
            /\ UNCHANGED opened
            /\ NoCommand
      [] key = "ArrowUp" ->
            /\ app' = IF app.search_results # <<>>
                      THEN [app EXCEPT !.selected_index =
                                IF @ = 0 THEN Len(app.search_results) - 1 ELSE @ - 1]
                      ELSE app
            /\ UNCHANGED opened
            /\ NoCommand
      [] key = "Enter" ->
            /\ \E ok \in BOOLEAN :
                  opened' = IF app.selected_index < Len(app.search_results)
                            THEN Some([path |-> app.search_results[app.selected_index + 1].path,
                                       ok |-> ok])
                            ELSE opened
            /\ UNCHANGED app
            /\ NoCommand
      [] key = "Escape" ->
            /\ cmd.typed < MaxTyped
            /\ app' = [app EXCEPT !.search_query = <<>>, !.selected_index = 0]
            /\ searches' = Append(searches, perform_search(<<>>))
            /\ cmd' = [cmd EXCEPT !.typed = @ + 1]
            /\ UNCHANGED enable_cache
            /\ IndexUntouched
      [] OTHER ->
            /\ UNCHANGED <<app, opened>>
            /\ NoCommand

KeysNext ==
    \/ LaunchSelected
    \/ \E key \in Keys : KeyPressed(key)
    \/ \E q \in TypedQueries : SearchChanged(q)
    \/ \E i \in 1..Len(searches) : CmdSearchGetEntries(i)
    \/ \E i \in 1..Len(searches) : CmdSearchRun(i)
    \/ \E i \in 1..Len(searches) : SearchCompleted(i)

\* The application at rest, under the keys and the typing of its user.
SpecKeys == KeysInit /\ [][KeysNext]_vars

\* ------------------------------------------------------------------ claims

Scans == 1..MaxScans

\* The tasks between their spawn and the clearing of the flag.
ActiveScans == {s \in Scans : scan[s].pc \in {"walk", "entries", "count", "flag"}}

\* The lists that are whole: the empty list of the constructor, the sorted list
\* of every walk that ran to its end, and the list load_cache parsed.
CompleteLists ==
    {<<>>}
    \cup {scan[s].programs : s \in {t \in Scans : scan[t].pc \notin {"idle", "walk"}}}
    \cup (IF load.pc \in {"entries", "count"} \/ load.ret = Some(TRUE)
          THEN {load.cached} ELSE {})

\* The lists that have been written to entries.
PublishedLists ==
    {<<>>}
    \cup {scan[s].programs : s \in {t \in Scans : scan[t].pc \notin {"idle", "walk", "entries"}}}
    \cup (IF load.pc = "count" \/ load.ret = Some(TRUE) THEN {load.cached} ELSE {})

\* C1: whatever get_entries returns, at any moment of any scan, is a whole
\* list: the constructor's, the cache's, or the sorted list of a finished walk;
\* never the working list of a walk under way.
C1_ReadersSeeWholeLists == IsSome(snap) => Unwrap(snap) \in CompleteLists

\* A reader gets a stale list that is not empty while a walk has found entries.
C1_Witness ==
    /\ IsSome(snap)
    /\ Unwrap(snap) # <<>>
    /\ is_indexing
    /\ \E s \in Scans : /\ scan[s].pc = "walk"
                        /\ scan[s].programs # <<>>
                        /\ scan[s].programs # Unwrap(snap)

\* C2: at most one scan task is between its spawn and the clearing of the
\* flag, the flag is set exactly while there is one, and a call of
\* start_indexing that found the flag set has left that one task alone.
C2_OneScanInFlight ==
    /\ Cardinality(ActiveScans) <= 1
    /\ is_indexing <=> ActiveScans # {}
    /\ startResult = "busy" => Cardinality(ActiveScans) = 1

\* A call found the flag set while the second scan of the run was walking.
C2_Witness ==
    /\ startResult = "busy"
    /\ nScans = 2
    /\ scan[2].pc = "walk"

\* C3: the published count is the length of the published list in every state.
C3_CountIsLengthOfList == indexed_count = Len(entries)

\* C4: with the flag clear after a scan was started, the published list and
\* count are those of the last scan started.
C4_FlagClearMeansPublished ==
    (~is_indexing /\ nScans > 0) =>
        /\ entries = scan[nScans].programs
        /\ indexed_count = Len(scan[nScans].programs)

\* A reader gets the scan's list, not the cached one, once the flag is clear.
C4_Witness ==
    /\ ~is_indexing
    /\ nScans = 1
    /\ load.ret = Some(TRUE)
    /\ IsSome(snap)
    /\ Unwrap(snap) = scan[1].programs
    /\ Unwrap(snap) # load.cached

\* The cache file as load_cache finds it cannot be used.
CacheUnusable ==
    \/ ~cacheFile.exists
    \/ ~cacheFile.readable
    \/ ~IsSome(FromJson(cacheFile.text))

\* C5: load_cache returns false when the file is missing, unreadable or does
\* not parse, and the step that returns false changes neither the list, nor
\* the count, nor the flag; on the constructed store they stay empty and 0.
C5_FailedLoadChangesNothing ==
    /\ [][ /\ (load.pc = "idle" /\ load'.pc # "idle" /\ ~cacheFile.exists)
                => load'.ret = Some(FALSE)
           /\ (load.pc = "read" /\ load'.pc # "read" /\ CacheUnusable)
                => load'.ret = Some(FALSE)
           /\ (load.ret = None /\ load'.ret = Some(FALSE))
                => /\ entries' = entries
                   /\ indexed_count' = indexed_count
                   /\ is_indexing' = is_indexing ]_vars
    /\ [](load.ret = Some(FALSE) /\ nScans = 0 => entries = <<>> /\ indexed_count = 0)

\* load_cache returned false on a file that is there and readable but cut short.
C5_Witness ==
    /\ load.ret = Some(FALSE)
    /\ cacheFile.exists
    /\ cacheFile.readable
    /\ cacheFile.by = 0
    /\ entries = <<>>
    /\ indexed_count = 0

\* C6: on a file that parses, load_cache keeps the entries of the text in
\* their order, writes that list to entries and its length to indexed_count,
\* returns true, and none of its steps changes the flag.
C6_LoadPublishesParsedList ==
    [][ /\ (load.pc = "read" /\ load'.pc # "read" /\ ~CacheUnusable)
             => /\ load'.pc = "entries"
                /\ Len(load'.cached) = Len(cacheFile.text) - 2
                /\ \A i \in 1..Len(load'.cached) :
                      JsonOfEntry(load'.cached[i]) = cacheFile.text[i + 1]
        /\ (load.pc = "entries" /\ load'.pc # "entries")
             => /\ entries' = load.cached
                /\ load'.pc = "count"
        /\ (load.pc = "count" /\ load'.pc # "count")
             => /\ indexed_count' = Len(load.cached)
                /\ load'.ret = Some(TRUE)
        /\ load' # load => is_indexing' = is_indexing ]_vars

\* load_cache published the saved list and returned true while a scan ran.
C6_Witness ==
    /\ load.ret = Some(TRUE)
    /\ entries = EarlierSaved
    /\ indexed_count = Len(EarlierSaved)
    /\ is_indexing

\* C7: a scan task touches the cache file only after it has written its list
\* and count and cleared the flag, and a list the file holds after a scan's
\* save is one that has been written to entries.
C7_SaveAfterPublication ==
    /\ \A s \in Scans :
          (cacheFile.by = s \/ scan[s].saved # "none") => scan[s].pc \in {"write", "done"}
    /\ (cacheFile.by > 0 /\ IsSome(FromJson(cacheFile.text)))
          => Unwrap(FromJson(cacheFile.text)) \in PublishedLists

\* The first scan saved the list it published.
C7_Witness ==
    /\ cacheFile.by = 1
    /\ scan[1].saved = "written"
    /\ FromJson(cacheFile.text) = Some(entries)
    /\ entries = scan[1].programs
    /\ entries # <<>>

\* C8: a save that fails ends the task and changes neither the list, nor the
\* count, nor the flag; with no other scan in flight the flag is clear, so the
\* next start_indexing spawns a scan.
C8_SaveFailureIsSwallowed ==
    /\ [][ \A s \in Scans :
              (scan[s].pc \in {"save", "write"} /\ scan'[s].saved = "failed")
                 => /\ scan'[s].pc = "done"
                    /\ entries' = entries
                    /\ indexed_count' = indexed_count
                    /\ is_indexing' = is_indexing ]_vars
    /\ [](\A s \in Scans :
              (scan[s].saved = "failed" /\ ActiveScans = {}) => ~is_indexing)

\* The first scan's save failed, its list is still published, and a second
\* scan was accepted.
C8_Witness ==
    /\ scan[1].saved = "failed"
    /\ entries = scan[1].programs
    /\ indexed_count = Len(entries)
    /\ entries # <<>>
    /\ nScans = 2
    /\ scan[2].pc = "walk"

\* Whether search gives e a result for a query that is not empty: the
\* lower-cased query matches the lower-cased display name or the short name.
Matching(e) ==
    \/ IsSome(fuzzy_match(ToLowercase(e.display_name), ToLowercase(query)))
    \/ IsSome(fuzzy_match(e.name, ToLowercase(query)))

\* The score the claim gives a matching entry.
ClaimedScore(e) ==
    LET d  == fuzzy_match(ToLowercase(e.display_name), ToLowercase(query))
        n  == fuzzy_match(e.name, ToLowercase(query))
        ds == {Unwrap(x) : x \in {y \in {d, n} : IsSome(y)}}
    IN  (CHOOSE m \in ds : \A x \in ds : x <= m)
        + (IF e.source = StartMenu THEN 50 ELSE 0)
        + (IF StartsWith(ToLowercase(e.display_name), ToLowercase(query)) THEN 100 ELSE 0)

MatchingIndexes == {i \in 1..Len(given) : Matching(given[i])}

Returned == Unwrap(results)

\* C9: an empty query returns the first min(20, |entries|) entries in their
\* order, each with score 0.
C9_EmptyQueryFirstTwenty ==
    (IsSome(results) /\ query = <<>>) =>
        /\ Len(Returned) = (IF Len(given) < 20 THEN Len(given) ELSE 20)
        /\ \A i \in 1..Len(Returned) :
              Returned[i].entry = given[i] /\ Returned[i].score = 0

\* An empty query over 25 entries returned 20 results.
C9_Witness ==
    /\ IsSome(results)
    /\ query = <<>>
    /\ Len(given) = 25
    /\ Len(Returned) = 20

\* C10 as stated: for a query that is not empty an entry is in the results if
\* and only if it matches, with the score the claim gives.
C10_InResultsIffMatching ==
    (IsSome(results) /\ query # <<>>) =>
        /\ \A i \in 1..Len(given) :
              Matching(given[i]) <=> \E k \in 1..Len(Returned) : Returned[k].entry = given[i]
        /\ \A k \in 1..Len(Returned) : Returned[k].score = ClaimedScore(Returned[k].entry)

\* C10 amended: every result is a matching entry with the score the claim
\* gives; every matching entry is in the results when at most 50 entries
\* match, and otherwise the results are 50 of the matching entries.
C10_MatchingUpToFifty ==
    (IsSome(results) /\ query # <<>>) =>
        LET matching == MatchingIndexes
        IN  /\ \A k \in 1..Len(Returned) :
                  /\ \E i \in matching : Returned[k].entry = given[i]
                  /\ Returned[k].score = ClaimedScore(Returned[k].entry)
            /\ Cardinality(matching) <= 50 =>
                  \A i \in matching : \E k \in 1..Len(Returned) : Returned[k].entry = given[i]
            /\ Len(Returned) = (IF Cardinality(matching) < 50
                                THEN Cardinality(matching) ELSE 50)

\* A search where some entries match by the short name alone, some not at all,
\* and every matching entry is returned.
C10_Witness ==
    /\ IsSome(results)
    /\ query = <<"z">>
    /\ Len(given) = 25
    /\ Len(Returned) > 0
    /\ Len(Returned) < Len(given)
    /\ \E k \in 1..Len(Returned) :
          ~IsSome(fuzzy_match(ToLowercase(Returned[k].entry.display_name), query))

\* The place of a returned entry in the list the search was given.
GivenIndex(e) == CHOOSE i \in 1..Len(given) : given[i] = e

\* C11: for a query that is not empty the results are in non-increasing score
\* order, and results of equal score are in the order of their entries in the
\* list given.
C11_SortedByScoreStable ==
    (IsSome(results) /\ query # <<>>) =>
        \A k, l \in 1..Len(Returned) :
            k < l =>
                \/ Returned[k].score > Returned[l].score
                \/ /\ Returned[k].score = Returned[l].score
                   /\ GivenIndex(Returned[k].entry) < GivenIndex(Returned[l].entry)

\* A search whose results hold two of equal score, and one that was moved in
\* front of an entry given before it.
C11_Witness ==
    /\ IsSome(results)
    /\ query # <<>>
    /\ \E k, l \in 1..Len(Returned) :
          k < l /\ Returned[k].score = Returned[l].score
    /\ \E k, l \in 1..Len(Returned) :
          /\ k < l
          /\ Returned[k].score > Returned[l].score
          /\ GivenIndex(Returned[k].entry) > GivenIndex(Returned[l].entry)

\* Whether the entry given at i goes before the entry given at j in the
\* sorted list of matches: higher score, or equal score and given earlier.
RanksBefore(i, j) ==
    \/ ClaimedScore(given[i]) > ClaimedScore(given[j])
    \/ ClaimedScore(given[i]) = ClaimedScore(given[j]) /\ i < j

ReturnedIndexes == {GivenIndex(Returned[k].entry) : k \in 1..Len(Returned)}

\* C12: for a query that is not empty search returns at most 50 results, the
\* first 50 of the sorted list of matches (all of them when fewer match), and
\* the list perform_search hands on is the first max_results of those, so it
\* has at most min(50, max_results) items.
C12_TopFiftyThenMaxResults ==
    (IsSome(results) /\ query # <<>>) =>
        /\ Len(Returned) <= 50
        /\ LET matching == MatchingIndexes
               returned == ReturnedIndexes
               left     == matching \ returned
           IN  /\ Len(Returned) = (IF Cardinality(matching) < 50
                                   THEN Cardinality(matching) ELSE 50)
               /\ returned \subseteq matching
               /\ \A j \in left : \A i \in returned : RanksBefore(i, j)
        /\ IsSome(shown) =>
              /\ Len(Unwrap(shown)) <= 50
              /\ Len(Unwrap(shown)) <= max_results
              /\ Len(Unwrap(shown)) = (IF Len(Returned) < max_results
                                       THEN Len(Returned) ELSE max_results)
              /\ \A k \in 1..Len(Unwrap(shown)) :
                    Unwrap(shown)[k].path = Returned[k].entry.path

\* More than 50 entries matched, 50 were returned, and with max_results above
\* the cap all 50 were handed on.
C12_Witness ==
    /\ IsSome(results)
    /\ query # <<>>
    /\ Cardinality(MatchingIndexes) > 50
    /\ Len(Returned) = 50
    /\ IsSome(shown)
    /\ max_results > 50
    /\ Len(Unwrap(shown)) = 50

\* max(display-name score, short-name score) of a matching entry.
BaseScore(e) ==
    LET d  == fuzzy_match(ToLowercase(e.display_name), ToLowercase(query))
        n  == fuzzy_match(e.name, ToLowercase(query))
        ds == {Unwrap(x) : x \in {y \in {d, n} : IsSome(y)}}
    IN  CHOOSE m \in ds : \A x \in ds : x <= m

HasPrefix(e) == StartsWith(ToLowercase(e.display_name), ToLowercase(query))

\* The place of the entry given at i in the results, 0 when it is not there.
Rank(i) ==
    IF \E k \in 1..Len(Returned) : Returned[k].entry = given[i]
    THEN CHOOSE k \in 1..Len(Returned) : Returned[k].entry = given[i]
    ELSE 0

\* C13: of two matching entries with equal base score, one whose lower-cased
\* display name starts with the lower-cased query and one whose does not, the
\* first is ranked strictly before the second when they have the same source,
\* and also when the first is from ProgramFiles and the second from StartMenu.
C13_PrefixOutranks ==
    (IsSome(results) /\ query # <<>>) =>
        LET ranked == {[source |-> given[i].source, prefix |-> HasPrefix(given[i]),
                        base |-> BaseScore(given[i]), rank |-> Rank(i)] :
                           i \in MatchingIndexes}
        IN  \A a, b \in ranked :
                (/\ a.prefix
                 /\ ~b.prefix
                 /\ a.base = b.base
                 /\ \/ a.source = b.source
                    \/ a.source = ProgramFiles /\ b.source = StartMenu)
                => /\ b.rank # 0 => a.rank # 0
                   /\ b.rank # 0 => a.rank < b.rank

\* A ProgramFiles entry and a StartMenu entry whose display names start with
\* the query were both returned before a StartMenu entry of their base score
\* that was given before them.
C13_Witness ==
    /\ IsSome(results)
    /\ query # <<>>
    /\ Len(given) < 5
    /\ \E i, j, h \in 1..Len(given) :
          /\ j < i
          /\ j < h
          /\ Matching(given[i]) /\ Matching(given[j]) /\ Matching(given[h])
          /\ HasPrefix(given[i]) /\ ~HasPrefix(given[j]) /\ HasPrefix(given[h])
          /\ BaseScore(given[i]) = BaseScore(given[j])
          /\ BaseScore(given[h]) = BaseScore(given[j])
          /\ given[i].source = ProgramFiles
          /\ given[j].source = StartMenu
          /\ given[h].source = StartMenu
          /\ Rank(i) # 0 /\ Rank(i) < Rank(j) /\ Rank(h) # 0 /\ Rank(h) < Rank(j)

\* The scans that have published their list and still hold what they walked.
PublishedScans == {s \in Scans : scan[s].pc \in {"count", "flag", "snapshot", "save", "write"}}

\* What index_directory makes of each walk entry when nothing was seen before
\* it: for those it makes an entry of, the place j in the walk, the entry and
\* its lower-cased display name.
RECURSIVE YieldedFrom(_)
YieldedFrom(j) ==
    LET alone == index_directory_step(Candidates[j],
                     [programs |-> <<>>, seen |-> {}, icons |-> {}]).programs
    IN  IF j > Len(Candidates) THEN <<>>
        ELSE (IF alone = <<>> THEN <<>>
              ELSE <<[j |-> j, entry |-> alone[1],
                      key |-> ToLowercase(alone[1].display_name) \o <<>>]>>)
             \o YieldedFrom(j + 1)

Yielded == YieldedFrom(1)

\* Those of the walk of fs.
YieldedIn(fs) ==
    LET ys == Yielded
    IN  {ys[n] : n \in {m \in 1..Len(ys) : ys[m].j \in fs}}

\* C15: in the list a scan publishes no two entries have the same lower-cased
\* display name, and the entry of a name that several files have comes from
\* the first of them in the walk, a Start Menu file before any Program Files
\* file.
C15_FirstOfEachNameSurvives ==
    \A s \in PublishedScans :
        LET list == scan[s].programs
            ys   == YieldedIn(scan[s].fs)
            keys == {<<a, ToLowercase(list[a].display_name) \o <<>> >> : a \in 1..Len(list)}
        IN  /\ \A p, q \in keys : p[1] # q[1] => p[2] # q[2]
            /\ \A y \in ys : \E p \in keys : p[2] = y.key
            /\ \A p \in keys :
                  LET same  == {y \in ys : y.key = p[2]}
                      first == CHOOSE y \in same : \A z \in same : y.j <= z.j
                  IN  /\ same # {}
                      /\ list[p[1]].path = first.entry.path
                      /\ list[p[1]].source = first.entry.source
                      /\ (\E y \in same : y.entry.source = StartMenu)
                             => list[p[1]].source = StartMenu

\* A scan published a list whose walk met two files of one lower-cased display
\* name, one under the Start Menu and one under Program Files.
C15_Witness ==
    \E s \in PublishedScans :
        /\ entries = scan[s].programs
        /\ \E y, z \in YieldedIn(scan[s].fs) :
              /\ y.j < z.j
              /\ y.key = z.key
              /\ y.entry.source = StartMenu
              /\ z.entry.source = ProgramFiles
              /\ \E a \in 1..Len(entries) : entries[a].path = y.entry.path

\* The entries of the claim's example, in the order they were found.
FoundZetaAlphaBeta ==
    <<ProgramEntry("pf\\Zeta.exe", <<"z", "e", "t", "a">>, <<"Z", "e", "t", "a">>, ProgramFiles, None),
      ProgramEntry("sm\\Alpha.lnk", <<"a", "l", "p", "h", "a">>, <<"A", "l", "p", "h", "a">>, StartMenu, None),
      ProgramEntry("sm\\Beta.lnk", <<"b", "e", "t", "a">>, <<"B", "e", "t", "a">>, StartMenu, None)>>

\* The place in the walk of the file an entry of a scan's list came from.
WalkPlace(fs, e) == (CHOOSE y \in YieldedIn(fs) : y.entry.path = e.path).j

\* C16: the list a scan publishes is in the order of (source, StartMenu before
\* ProgramFiles; then display name, by byte-wise comparison), whatever the
\* order its entries were found in; found as Zeta/ProgramFiles,
\* Alpha/StartMenu, Beta/StartMenu the list is Alpha, Beta, Zeta.
C16_PublishedListSorted ==
    /\ \A s \in PublishedScans :
          LET list == scan[s].programs
          IN  \A a, b \in 1..Len(list) :
                  a < b =>
                      \/ list[a].source = StartMenu /\ list[b].source = ProgramFiles
                      \/ /\ list[a].source = list[b].source
                         /\ StrCmp(list[a].display_name, list[b].display_name) <= 0
    /\ nScans > 0 =>
          LET sorted == SortPrograms(FoundZetaAlphaBeta)
          IN  sorted = <<FoundZetaAlphaBeta[2], FoundZetaAlphaBeta[3], FoundZetaAlphaBeta[1]>>

\* A scan published two entries of one source in the reverse of the order it
\* found them in, the order of their names without regard to case being the
\* order they were found in.
C16_Witness ==
    \E s \in PublishedScans :
        /\ entries = scan[s].programs
        /\ \E a, b \in 1..Len(entries) :
              /\ a < b
              /\ entries[a].source = entries[b].source
              /\ WalkPlace(scan[s].fs, entries[a]) > WalkPlace(scan[s].fs, entries[b])
              /\ StrCmp(ToLowercase(entries[a].display_name),
                        ToLowercase(entries[b].display_name)) > 0

FailedShortcuts(fs) ==
    {j \in fs : /\ Candidates[j].root = StartMenu
                /\ Candidates[j].readable
                /\ Candidates[j].isFile
                /\ Candidates[j].depth <= 5
                /\ IsSome(Candidates[j].ext)
                /\ ToLowercase(Unwrap(Candidates[j].ext)) = <<"l", "n", "k">>
                /\ IsSome(Candidates[j].stem)
                /\ ~\E x \in Excluded : Contains(ToLowercase(Unwrap(Candidates[j].stem)), x)
                /\ Candidates[j].lnk \in {"err", "panic"}}

\* The list of scan s has an entry for walk entry j under its stem and its own
\* path.
HasRawEntry(s, j) ==
    \E a \in 1..Len(scan[s].programs) :
        /\ scan[s].programs[a].display_name = Unwrap(Candidates[j].stem)
        /\ scan[s].programs[a].path = Candidates[j].path

\* The walk went on after walk entry j: every later file that gives an entry
\* has its name in the list.
WalkWentOn(s, j) ==
    \A y \in YieldedIn(scan[s].fs) :
        y.j > j => \E a \in 1..Len(scan[s].programs) :
                       ToLowercase(scan[s].programs[a].display_name) = y.key

\* C18 as stated: a shortcut whose resolution fails yields an entry under its
\* stem and its own path, and the walk goes on.
C18_FailedShortcutYieldsEntry ==
    \A s \in PublishedScans : \A j \in FailedShortcuts(scan[s].fs) :
        HasRawEntry(s, j) /\ WalkWentOn(s, j)

\* C18 amended: a shortcut whose resolution fails is treated as a file of its
\* stem: it yields an entry under its stem and its own path unless a file
\* earlier in the walk gave an entry of the same lower-cased name, in which
\* case that entry stands for the name; the walk goes on either way.
C18_FailedShortcutTreatedAsFile ==
    \A s \in PublishedScans : \A j \in FailedShortcuts(scan[s].fs) :
        LET key     == ToLowercase(Unwrap(Candidates[j].stem))
            earlier == {y \in YieldedIn(scan[s].fs) : y.j < j /\ y.key = key}
        IN  /\ earlier = {} => HasRawEntry(s, j)
            /\ earlier # {} =>
                  /\ ~HasRawEntry(s, j)
                  /\ \E a \in 1..Len(scan[s].programs) :
                        ToLowercase(scan[s].programs[a].display_name) = key
            /\ WalkWentOn(s, j)

\* A scan published a list with the raw entries of a shortcut whose parser
\* panicked and of one whose parser returned an error, and with an entry of a
\* file that came after both.
C18_Witness ==
    \E s \in PublishedScans :
        /\ entries = scan[s].programs
        /\ \E j, k \in FailedShortcuts(scan[s].fs) :
              /\ Candidates[j].lnk = "panic"
              /\ Candidates[k].lnk = "err"
              /\ HasRawEntry(s, j)
              /\ HasRawEntry(s, k)
              /\ \E a \in 1..Len(entries) : entries[a].source = ProgramFiles

\* The scan has saved and load_cache has returned, and neither the opening
\* nor the writing of the file failed.
SavedThenLoaded ==
    /\ scan[1].pc = "done"
    /\ load.pc = "done"
    /\ ~(scan[1].saved = "failed" /\ IsSome(ToJson(scan[1].programs)))

\* C19 as stated: whatever the entry list, save_cache_sync followed by
\* load_cache publishes a sequence equal to it in order and in every field.
C19_RoundTripOfAnyList ==
    SavedThenLoaded =>
        /\ load.ret = Some(TRUE)
        /\ load.cached = scan[1].programs
        /\ entries = scan[1].programs
        /\ indexed_count = Len(scan[1].programs)

\* C19 amended: the round trip gives back a list whose paths are all valid
\* Unicode; of a list with a path that is not, save_cache_sync writes nothing.
C19_RoundTripOfUnicodePaths ==
    SavedThenLoaded =>
        IF \E a \in 1..Len(scan[1].programs) : scan[1].programs[a].path \in NonUtf8Paths
        THEN /\ scan[1].saved = "failed"
             /\ ~cacheFile.exists
             /\ load.ret = Some(FALSE)
        ELSE /\ scan[1].saved = "written"
             /\ load.ret = Some(TRUE)
             /\ load.cached = scan[1].programs
             /\ entries = scan[1].programs
             /\ indexed_count = Len(scan[1].programs)

\* A list with an entry that has an icon and one that has none was saved and
\* loaded back.
C19_Witness ==
    /\ SavedThenLoaded
    /\ load.ret = Some(TRUE)
    /\ entries = load.cached
    /\ \E a, b \in 1..Len(entries) :
          IsSome(entries[a].icon_path) /\ ~IsSome(entries[b].icon_path)

\* The searches in flight whose future has returned.
Returning == {i \in 1..Len(searches) : searches[i].pc = "msg"}

\* The step is the search of the i-th future in flight.
SearchStep(i) ==
    /\ i <= Len(searches)
    /\ searches[i].pc = "search"
    /\ Len(searches') = Len(searches)
    /\ searches'[i].pc = "msg"

StartRequested == cmd.start > 0 \/ cmd.index # "none" \/ nScans > 0 \/ app.is_indexing

\* C20: with the cache enabled, load_cache is called and has returned before
\* start_indexing is requested, and CacheLoaded issues a search over the
\* cached list and the scan start with true, the scan start alone with
\* false; with the cache disabled, the scan start is requested from the start
\* and load_cache is never called.
C20_StartupSequencing ==
    /\ [](IF enable_cache
          THEN /\ cmd.load # "none"
               /\ StartRequested => (load.pc = "done" /\ cmd.load = "handled")
          ELSE /\ cmd.load = "none"
               /\ load.pc = "idle"
               /\ StartRequested)
    /\ [][(cmd.load = "pending" /\ cmd'.load = "handled") =>
              /\ load.pc = "done"
              /\ ~StartRequested
              /\ cmd'.start = 1
              /\ cmd'.index = "none"
              /\ nScans' = 0
              /\ IF Unwrap(load.ret)
                 THEN /\ entries = load.cached
                      /\ searches' = Append(searches, perform_search(app.search_query))
                 ELSE /\ entries = <<>>
                      /\ searches' = searches]_vars

\* CacheLoaded(true) was taken, and the scan it asked for was started while
\* the search it issued is in flight over the cached list.
C20_Witness ==
    /\ enable_cache
    /\ cmd.load = "handled"
    /\ load.ret = Some(TRUE)
    /\ nScans = 1
    /\ \E i \in 1..Len(searches) :
          searches[i].pc = "search" /\ searches[i].entries = load.cached
    /\ cmd.typed = 0

\* No cached list was published: the cache is disabled, or load_cache
\* returned false.
CacheMiss == ~enable_cache \/ load.ret = Some(FALSE)

\* The first scan of the run has replaced the published list.
FirstScanPublished ==
    nScans > 0 /\ scan[1].pc \in {"count", "flag", "snapshot", "save", "write", "done"}

\* C21: when no cached list was published (cache disabled, or load_cache
\* returned false), the displayed results are empty in every state before the
\* first scan publishes, whatever was typed.
C21_NothingShownBeforeFirstScan ==
    (CacheMiss /\ ~FirstScanPublished) => app.search_results = <<>>

\* On the cache-miss path a typed query that the walked files match has been
\* searched and its results taken, while the scan has files gathered and has
\* not published them.
C21_Witness ==
    /\ CacheMiss
    /\ nScans = 1
    /\ scan[1].pc \in {"walk", "entries"}
    /\ \E k \in 1..Len(scan[1].programs) : Contains(scan[1].programs[k].name, <<"a">>)
    /\ app.search_query = <<"a">>
    /\ cmd.typed = 1
    /\ searches = <<>>

\* What is published while the first scan walks: the cached list when
\* load_cache returned true, else nothing.
PublishedBeforeScan == IF load.ret = Some(TRUE) THEN load.cached ELSE <<>>

\* The scan task is in its walk.
Walking == nScans > 0 /\ scan[1].pc = "walk"

\* C23: a search whose query changes while a scan walks is not held up by the
\* scan: the walk leaves the published list as it was before the scan, a
\* search in flight holds a clone of a list that was published (that one, or
\* the empty list of before load_cache), and one that has still to clone the
\* list can do so.
C23_SearchNotBlockedByWalk ==
    Walking =>
        /\ entries = PublishedBeforeScan
        /\ \A i \in 1..Len(searches) :
              /\ searches[i].pc \in {"search", "msg"}
                     => searches[i].entries \in {<<>>, entries}
              /\ searches[i].pc = "get" => ENABLED CmdSearchGetEntries(i)

\* With the cached list published, a query typed after the walk gathered a
\* file was searched over the cached list and its results are shown, and the
\* scan still walks.
C23_Witness ==
    /\ Walking
    /\ scan[1].programs # <<>>
    /\ Remaining(scan[1].fs, scan[1].i) # {}
    /\ cmd.typed = 1
    /\ app.search_query = <<"a">>
    /\ searches = <<>>
    /\ app.search_results # <<>>
    /\ app.search_results =
           TakeResults(search(app.search_query, load.cached), max_results)

\* C24: in a run of the application start_indexing is called exactly once:
\* at most one StartIndexing is on its way and none once one was taken, the
\* call never finds the flag set and no second scan is spawned, and once
\* StartIndexing was taken its future calls start_indexing, which spawns the
\* one scan, whether the cache is disabled, missed or hit.
C24_OneScanPerLaunch ==
    /\ cmd.start <= 1
    /\ cmd.start = 1 => (cmd.index = "none" /\ nScans = 0 /\ ~app.is_indexing)
    /\ nScans <= 1
    /\ startResult # "busy"
    /\ cmd.index = "start" => nScans = 0
    /\ cmd.index \in {"started", "flag", "count", "msg"} => nScans = 1
    /\ (cmd.start = 0 /\ cmd.load # "pending") => (nScans = 1 \/ cmd.index = "start")

\* On the cache-hit path the one scan has ended, the application has seen the
\* flag cleared and refreshed, and a query was typed meanwhile.
C24_Witness ==
    /\ load.ret = Some(TRUE)
    /\ nScans = 1
    /\ scan[1].pc = "done"
    /\ ~app.is_indexing
    /\ cmd.index = "none"
    /\ cmd.start = 0
    /\ cmd.typed = 1
    /\ searches = <<>>

\* The application has seen the flag of the index cleared and polls no more.
PollingOver == nScans = 1 /\ cmd.index = "none" /\ cmd.start = 0 /\ ~app.is_indexing

\* An IndexingProgress message is taken in the step.
ProgressTaken == cmd.index \in {"started", "msg"} /\ cmd'.index # cmd.index

\* C22: once the scan is started the application polls as long as a poll
\* reports the flag set; under fairness a poll comes to report it clear, and
\* then the application clears its own flag, polls no more from then on and
\* issues one search, the only refresh of the run, at a time when the list of
\* the scan is published for good.
C22_PollUntilClearedThenRefreshOnce ==
    /\ (nScans = 1) ~> PollingOver
    /\ [][ProgressTaken =>
             IF cmd.index = "started" \/ cmd.flag
             THEN /\ cmd'.index = "flag"
                  /\ app'.is_indexing
                  /\ searches' = searches
             ELSE /\ ~is_indexing
                  /\ scan[1].pc \in {"snapshot", "save", "write", "done"}
                  /\ entries = scan[1].programs
                  /\ app'.indexed_count = Len(entries)
                  /\ PollingOver'
                  /\ searches' = Append(searches, perform_search(app.search_query))]_vars
    /\ [][PollingOver =>
             /\ PollingOver'
             /\ entries' = entries
             /\ Len(searches') > Len(searches) => cmd'.typed = cmd.typed + 1]_vars
    /\ [][(cmd.index = "flag" /\ cmd'.index = "count") => cmd'.flag = is_indexing]_vars

\* Polling is over and the refresh search, issued with the query typed during
\* the scan, has cloned the list of the scan, of which the application shows
\* the count.
C22_Witness ==
    /\ PollingOver
    /\ cmd.typed = 1
    /\ app.search_query = <<"a">>
    /\ Len(searches) = 1
    /\ searches[1].pc = "search"
    /\ searches[1].entries = entries
    /\ entries # <<>>
    /\ entries = scan[1].programs
    /\ app.indexed_count = Len(entries)

\* Nothing of the run is in flight: the start-up is over, the scan has ended
\* with its save, the application has seen the flag cleared, and every search
\* has had its message taken.
Quiescent ==
    /\ PollingOver
    /\ cmd.load # "pending"
    /\ scan[1].pc = "done"
    /\ searches = <<>>

\* C30: once no search is in flight (and nothing else of the run is), the
\* displayed results are those of a search of the current query over the
\* published list, cut to max_results: no result of an older query or an
\* older list stays displayed.
C30_DisplayedIsCurrentSearch ==
    Quiescent =>
        app.search_results = TakeResults(search(app.search_query, entries), max_results)

\* The scans that hold the list they hand, or have handed, to the index.
HandingScans ==
    {s \in Scans : scan[s].pc \in {"entries", "count", "flag", "snapshot", "save", "write"}}

\* The walk entries of fs that WalkDir could not read.
Unreadable(fs) == {j \in fs : ~Candidates[j].readable}

\* C26: the failure of one file (an entry the walk cannot read, a shortcut
\* that does not resolve, an icon that cannot be extracted) costs the list
\* nothing but that file: the list handed to the index comes from a walk that
\* has visited every entry of the tree, every name a file of the tree gives
\* is in it, every entry of it comes from a file of the tree, and no entry
\* from an unreadable one; and every scan that starts comes to publish its
\* list and clear the flag.
C26_FailuresDoNotStopTheScan ==
    /\ [](\A s \in HandingScans :
             LET list == scan[s].programs
                 ys   == YieldedIn(scan[s].fs)
             IN  /\ Remaining(scan[s].fs, scan[s].i) = {}
                 /\ \A y \in ys : \E a \in 1..Len(list) :
                        ToLowercase(list[a].display_name) = y.key
                 /\ \A a \in 1..Len(list) : \E y \in ys :
                        /\ y.entry.path = list[a].path
                        /\ y.entry.display_name = list[a].display_name
                 /\ \A j \in Unreadable(scan[s].fs) : \A a \in 1..Len(list) :
                        list[a].path # Candidates[j].path)
    /\ (nScans = 1) ~> (~is_indexing /\ scan[1].pc \in {"snapshot", "save", "write", "done"}
                        /\ entries = scan[1].programs /\ indexed_count = Len(entries))

\* A scan over a tree with an unreadable entry, a shortcut that fails to
\* resolve and a file whose icon cannot be extracted has published, with the
\* flag cleared, a list that has the entry of a file that came after them.
C26_Witness ==
    \E s \in PublishedScans :
        /\ ~is_indexing
        /\ entries = scan[s].programs
        /\ \E j \in Unreadable(scan[s].fs) : \E k \in FailedShortcuts(scan[s].fs) :
              \E a, b \in 1..Len(entries) :
                  /\ entries[a].path = Candidates[k].path
                  /\ entries[b].source = ProgramFiles
                  /\ entries[b].icon_path = None
                  /\ WalkPlace(scan[s].fs, entries[b]) > j
                  /\ WalkPlace(scan[s].fs, entries[b]) > k

\* The words C27 lists.
ListedWords == { <<"u", "n", "i", "n", "s", "t", "a", "l", "l">>, <<"u", "n", "i", "n", "s", "t">>,
                 <<"u", "p", "d", "a", "t", "e">>, <<"u", "p", "d", "a", "t", "e", "r">>,
                 <<"s", "e", "t", "u", "p">> }

\* The lower-cased stem of the file has one of the listed words in it.
StemExcluded(f) ==
    IsSome(f.stem) /\ \E x \in ListedWords : Contains(ToLowercase(Unwrap(f.stem)), x)

\* The file is a regular file with the extension of its source, in either case.
RightKind(f) ==
    /\ f.isFile
    /\ IsSome(f.ext)
    /\ ToLowercase(Unwrap(f.ext)) = IF f.root = StartMenu THEN <<"l", "n", "k">>
                                    ELSE <<"e", "x", "e">>

\* The name the entry of the file is to have: that of the shortcut when it
\* opens and has a non-empty one, else the stem, else the placeholder.
ResolvedName(f) ==
    IF /\ IsSome(f.ext) /\ ToLowercase(Unwrap(f.ext)) = <<"l", "n", "k">>
       /\ f.lnk = "ok" /\ IsSome(f.lnkName) /\ Unwrap(f.lnkName) # <<>>
    THEN Unwrap(f.lnkName)
    ELSE IF IsSome(f.stem) THEN Unwrap(f.stem)
    ELSE <<"U", "n", "k", "n", "o", "w", "n">>

\* The iteration has added one entry at the end of the list.
Appended ==
    /\ Len(scan'[1].programs) = Len(scan[1].programs) + 1
    /\ SubSeq(scan'[1].programs, 1, Len(scan[1].programs)) = scan[1].programs

\* The entry the iteration has added.
NewEntry == scan'[1].programs[Len(scan'[1].programs)]

\* C27: an iteration of the walk adds an entry only for a regular file of the
\* extension of its source (lnk under a Start Menu root, exe under a Program
\* Files root, in either case) whose lower-cased stem has none of the listed
\* words in it; a file whose stem has one leaves the list, the names seen and
\* the icons as they were, so it suppresses no later file; and a file of the
\* right kind that the walk yields, with a clean stem and a name not seen yet,
\* gets its entry whatever words its resolved name has in it.
C27_FiltersOnKindAndStem ==
    [][IndexFile =>
          /\ Appended \/ scan'[1].programs = scan[1].programs
          /\ Appended => RightKind(file) /\ ~StemExcluded(file)
          /\ StemExcluded(file) =>
                /\ scan'[1].programs = scan[1].programs
                /\ scan'[1].seen = scan[1].seen
                /\ icons' = icons
          /\ ( /\ file.readable /\ file.depth <= MaxDepth(file.root)
               /\ RightKind(file) /\ ~StemExcluded(file)
               /\ ToLowercase(ResolvedName(file)) \notin scan[1].seen )
                => Appended /\ NewEntry.path = file.path /\ NewEntry.source = file.root
      ]_vars

\* A shortcut with a clean stem and the name Setup has got its entry.
C27_Witness ==
    /\ scan[1].i = 1
    /\ file.lnkName = Some(<<"S", "e", "t", "u", "p">>)
    /\ ~StemExcluded(file)
    /\ scan[1].programs # <<>>
    /\ scan[1].programs[Len(scan[1].programs)].display_name = <<"S", "e", "t", "u", "p">>
    /\ scan[1].programs[Len(scan[1].programs)].path = file.path

\* C28: the entry an iteration of the walk adds has a display name that is not
\* empty: the name of the shortcut when the shortcut opens and its name is
\* not empty, otherwise the stem of the file, otherwise "Unknown".
C28_DisplayNameNeverEmpty ==
    [][IndexFile /\ Appended =>
          /\ NewEntry.display_name # <<>>
          /\ NewEntry.display_name = ResolvedName(file)
      ]_vars

\* A shortcut that opens with an empty name has got an entry under its stem.
C28_Witness ==
    /\ scan[1].i = 1
    /\ file.lnk = "ok"
    /\ file.lnkName = Some(<<>>)
    /\ IsSome(file.stem)
    /\ scan[1].programs # <<>>
    /\ scan[1].programs[Len(scan[1].programs)].path = file.path
    /\ scan[1].programs[Len(scan[1].programs)].display_name = Unwrap(file.stem)

\* C29: the icon never decides whether a file gets its entry. An iteration
\* that adds an entry gives it the icon file of its display name when that
\* file is already there, whether or not an extraction would succeed, and
\* leaves the icon directory as it was; otherwise the icon that extraction
\* writes; and when extraction or the write fails, no icon, with the entry
\* added all the same. An iteration that adds no entry writes no icon.
C29_IconNeverBlocksEntry ==
    [][IndexFile =>
          LET png == IconFileName(ResolvedName(file))
          IN  /\ ~Appended => icons' = icons
              /\ Appended /\ png \in icons =>
                     NewEntry.icon_path = Some(png) /\ icons' = icons
              /\ Appended /\ png \notin icons /\ file.iconOk =>
                     NewEntry.icon_path = Some(png) /\ icons' = icons \cup {png}
              /\ Appended /\ png \notin icons /\ ~file.iconOk =>
                     NewEntry.icon_path = None /\ icons' = icons
              /\ ( /\ file.readable /\ file.depth <= MaxDepth(file.root)
                   /\ RightKind(file) /\ ~StemExcluded(file)
                   /\ ToLowercase(ResolvedName(file)) \notin scan[1].seen )
                    => Len(scan'[1].programs) = Len(scan[1].programs) + 1
      ]_vars

\* A file whose icon cannot be extracted has got an entry with the icon file
\* that was already there.
C29_Witness ==
    /\ scan[1].i = 1
    /\ ~file.iconOk
    /\ scan[1].programs # <<>>
    /\ scan[1].programs[Len(scan[1].programs)].path = file.path
    /\ scan[1].programs[Len(scan[1].programs)].icon_path
           = Some(IconFileName(scan[1].programs[Len(scan[1].programs)].display_name))

\* A step that takes a launch: Message::LaunchSelected or the Enter key.
Launch == LaunchSelected \/ KeyPressed("Enter")

\* C25: a launch, by LaunchSelected or by Enter, hands the path of the selected
\* result to the opener and, whether the open succeeds or fails, leaves the
\* query, the results, the selection and the indexing flag and count of the
\* application as they were and issues no command; with no results it does
\* nothing. No other step hands anything to the opener.
C25_LaunchChangesNothing ==
    [][ /\ Launch =>
              /\ UNCHANGED <<app, cmd, searches, entries, is_indexing, indexed_count>>
              /\ app.search_results = <<>> => UNCHANGED opened
              /\ app.search_results # <<>> =>
                    /\ IsSome(opened')
                    /\ Unwrap(opened').path = app.search_results[app.selected_index + 1].path
        /\ opened' # opened => Launch
      ]_vars

\* The second result was launched, the open failed, and it is still selected.
C25_Witness ==
    /\ IsSome(opened)
    /\ ~Unwrap(opened).ok
    /\ app.selected_index = 1
    /\ Len(app.search_results) > 1
    /\ Unwrap(opened).path = app.search_results[2].path

\* Scans have run, every one has ended with its cache write done, none is in
\* progress, and load_cache was never called.
ScansAtRest ==
    /\ nScans > 0
    /\ ~is_indexing
    /\ \A s \in 1..nScans : scan[s].pc = "done" /\ scan[s].saved = "written"
    /\ load.pc = "idle"

\* C31: over successive scans on one index, whenever no scan is in progress,
\* no cache write is pending and the cache writes have succeeded, the cache
\* file holds the text of the published list.
C31_CacheFileIsPublishedList ==
    ScansAtRest =>
        /\ cacheFile.exists
        /\ cacheFile.readable
        /\ Some(cacheFile.text) = ToJson(entries)

\* The scan tasks that have written their list to entries.
HavePublished == {s \in 1..nScans : scan[s].pc \notin {"idle", "walk", "entries"}}

\* C32: in a run of the application the publication of the cached list, if
\* there is one, comes before that of the scan: once a scan has published,
\* load_cache has returned or was never called, and the published list is the
\* list of a scan, never again the content of the cache.
C32_CacheNeverOverwritesScan ==
    HavePublished # {} =>
        /\ load.pc \in {"idle", "done"}
        /\ entries \in {scan[s].programs : s \in HavePublished}

\* The cached list was published, and the scan has replaced it by another.
C32_Witness ==
    /\ HavePublished # {}
    /\ load.ret = Some(TRUE)
    /\ load.cached # <<>>
    /\ load.cached # entries

\* C33: after any sequence of messages (query changes, search completions of
\* any length, arrow keys, Escape, launches) the selected index is 0 or below
\* the number of results shown, so a launch with results on display always
\* has a result under the selection.
C33_SelectionWithinResults ==
    /\ app.selected_index \in Nat
    /\ app.selected_index = 0 \/ app.selected_index < Len(app.search_results)
    /\ app.search_results # <<>> => app.selected_index < Len(app.search_results)

\* The second of two results was launched; then the results of the query "a"
\* arrived, a single one, and the selection is on it.
C33_Witness ==
    /\ opened # None
    /\ Unwrap(opened).path = "pf\\Zed.exe"
    /\ app.search_query = <<"a">>
    /\ Len(app.search_results) = 1
    /\ app.selected_index = 0
    /\ searches = <<>>

====
